---- MODULE Spec2Model ----
(***************************************************************************)
(* Chunked tensor storage: the Chunk (hub/core/chunk.py) with its shape    *)
(* and byte-positions encoders, and the ChunkIdEncoder                     *)
(* (hub/core/meta/encode/chunk_id.py).                                     *)
(*                                                                         *)
(* Encoder tables are sequences of rows.  Row indices handed around by the *)
(* code are 0-based, as in the source; a table t is read at t[r + 1].      *)
(* An Optional value is a sequence of length 0 (None) or 1.                *)
(***************************************************************************)
EXTENDS Integers, Sequences, FiniteSets, TLC

\* ------------------------------------------------------------------ bounds
\* Largest extent of a sample shape along one axis.
MaxDim == 2
\* max_data_bytes handed to every append of the chunk.
MaxDataBytes == 3
\* Most samples one chunk is given.
MaxChunkSamples == 3
\* Most samples a chunk under lz4 chunk compression is given.
MaxLz4Samples == 2
\* Most rows of the chunk-id table.
MaxChunks == 3
\* Largest n handed to ChunkIdEncoder.register_samples.
MaxRegister == 2
\* Most register_samples calls made on one row of the chunk-id table.
MaxRegisterCalls == 2
\* Most _pop calls made on the chunk-id encoder.
MaxPops == 3
\* Most samples registered in the chunk-id table.
MaxSamples == 4
\* Number of distinct values uuid4() >> UUID_SHIFT_AMOUNT is drawn from.
NumIds == 3
\* Bit width of ENCODING_DTYPE, scaled down from 32 so that the wrapped
\* values fit the checker's integers; sample counts stay far below 2^width.
EncodingBits == 5
\* Largest id handed to name_from_id (three hexadecimal digits).
MaxNameId == 300

\* ------------------------------------------------------------------ values
None == <<>>

Some(v) == <<v>>

EncodingModulus == 2 ^ EncodingBits

RECURSIVE Prod(_)
\* np.prod(shape)
Prod(shape) ==
    IF shape = <<>> THEN 1 ELSE Head(shape) * Prod(Tail(shape))

RECURSIVE SeqsOfLen(_, _)
SeqsOfLen(S, n) ==
    IF n = 0 THEN {<<>>}
    ELSE {<<x>> \o s : x \in S, s \in SeqsOfLen(S, n - 1)}

\* Two byte values are enough to tell any two buffers apart.
ByteValues == {0, 1}

\* Shapes of the tensor's samples (dimensionality 1) and shapes of another
\* dimensionality (2), which update_sample must reject.
Shapes1D == {<<d>> : d \in 0..MaxDim}

Shapes2D == {<<1, d>> : d \in 1..MaxDim}

\* A uint8 array: its shape and its bytes in C order (itemsize 1).
ArraysOf(shapes) ==
    UNION {{[shape |-> s, buf |-> b] : b \in SeqsOfLen(ByteValues, Prod(s))} : s \in shapes}

Arrays1D == ArraysOf(Shapes1D)

Arrays2D == ArraysOf(Shapes2D)

\* ------------------------------------------------- run-length encoder (base)
\* A row binds a value to the last sample index it covers.
NumSamples(enc) ==
    IF Len(enc) = 0 THEN 0 ELSE enc[Len(enc)].last + 1

\* First sample index covered by the row with 0-based index r.
RowFirst(enc, r) ==
    IF r = 0 THEN 0 ELSE enc[r].last + 1

RECURSIVE BinSearch(_, _, _, _)
\* Leftmost insertion point of key in the last-seen column (binary search).
BinSearch(enc, key, lo, hi) ==
    IF lo >= hi THEN lo
    ELSE LET mid == lo + ((hi - lo) \div 2)
         IN  IF enc[mid + 1].last < key
             THEN BinSearch(enc, key, mid + 1, hi)
             ELSE BinSearch(enc, key, lo, mid)

\* Row (0-based) of the smallest last-seen >= i; a negative i counts from
\* the end, as the caller self[-1] of ChunkIdEncoder._pop relies on.
translate_index(enc, i) ==
    LET idx == IF i < 0 THEN i + NumSamples(enc) ELSE i
    IN  BinSearch(enc, idx, 0, Len(enc))

RECURSIVE Coalesce(_)
\* Merges adjacent rows whose values satisfy the combine condition; the
\* merged row keeps the first row's fields and the second row's last-seen.
Coalesce(enc) ==
    IF Len(enc) < 2 THEN enc
    ELSE IF enc[1].value = enc[2].value
         THEN Coalesce(<<[enc[1] EXCEPT !.last = enc[2].last]>> \o SubSeq(enc, 3, Len(enc)))
         ELSE <<enc[1]>> \o Coalesce(Tail(enc))

\* ------------------------------------------------------------ ShapeEncoder
\* register_samples(shape, n): coalesce with the last row iff the shapes match.
shape_register_samples(enc, shape, n) ==
    IF Len(enc) > 0 /\ enc[Len(enc)].value = shape
    THEN [enc EXCEPT ![Len(enc)].last = @ + n]
    ELSE Append(enc, [value |-> shape, last |-> NumSamples(enc) - 1 + n])

shape_getitem(enc, i) ==
    enc[translate_index(enc, i) + 1].value

\* __setitem__: split the row around sample i, then coalesce.
shape_setitem(enc, i, shape) ==
    LET r     == translate_index(enc, i)
        row   == enc[r + 1]
        first == RowFirst(enc, r)
        pre   == IF i > first THEN <<[row EXCEPT !.last = i - 1]>> ELSE <<>>
        one   == <<[value |-> shape, last |-> i]>>
        suf   == IF i < row.last THEN <<row>> ELSE <<>>
    IN  Coalesce(SubSeq(enc, 1, r) \o pre \o one \o suf \o SubSeq(enc, r + 2, Len(enc)))

\* ---------------------------------------------------- BytePositionsEncoder
\* Rows are [value |-> nbytes, start |-> start_byte, last |-> last-seen].
bytes_register_samples(enc, nb, n) ==
    IF Len(enc) > 0 /\ enc[Len(enc)].value = nb
    THEN [enc EXCEPT ![Len(enc)].last = @ + n]
    ELSE LET prevEnd == IF Len(enc) = 0 THEN 0
                        ELSE LET p == enc[Len(enc)]
                             IN  p.start + (p.last - RowFirst(enc, Len(enc) - 1) + 1) * p.value
         IN  Append(enc, [value |-> nb, start |-> prevEnd, last |-> NumSamples(enc) - 1 + n])

\* __getitem__: (start_byte, end_byte) of sample i.
bytes_getitem(enc, i) ==
    LET r     == translate_index(enc, i)
        row   == enc[r + 1]
        start == row.start + (i - RowFirst(enc, r)) * row.value
    IN  <<start, start + row.value>>

\* __setitem__: resize sample i and shift the start_byte of every later row
\* by the delta.
bytes_setitem(enc, i, nb) ==
    LET r     == translate_index(enc, i)
        row   == enc[r + 1]
        first == RowFirst(enc, r)
        delta == nb - row.value
        at    == row.start + (i - first) * row.value
        pre   == IF i > first THEN <<[row EXCEPT !.last = i - 1]>> ELSE <<>>
        one   == <<[value |-> nb, start |-> at, last |-> i]>>
        suf   == IF i < row.last THEN <<[row EXCEPT !.start = at + nb]>> ELSE <<>>
        rest  == [j \in 1..(Len(enc) - r - 1) |->
                    [enc[r + 1 + j] EXCEPT !.start = @ + delta]]
    IN  Coalesce(SubSeq(enc, 1, r) \o pre \o one \o suf \o rest)

\* -------------------------------------------------------- Python slicing
Min(a, b) == IF a < b THEN a ELSE b

Max(a, b) == IF a > b THEN a ELSE b

\* a[lo:hi] for 0 <= lo, hi (bounds clamp to the length).
PySlice(a, lo, hi) ==
    SubSeq(a, Min(lo, Len(a)) + 1, Min(hi, Len(a)))

\* a[lo:hi] = v on a bytearray: the slice is replaced and the array resized.
PySetSlice(a, lo, hi, v) ==
    LET l == Min(lo, Len(a))
        h == Max(l, Min(hi, Len(a)))
    IN  SubSeq(a, 1, l) \o v \o SubSeq(a, h + 1, Len(a))

\* bytearray(n): n zero bytes.
ZeroBytes(n) == [j \in 1..n |-> 0]

\* ------------------------------------------------------------------ codecs
\* lz4.frame.compress: a frame is a header marker followed by the payload.
Lz4Compress(bytes) == <<-1>> \o bytes

Lz4IsFrame(d) == Len(d) > 0 /\ d[1] = -1

\* lz4.frame.decompress of a frame.
Lz4Decompress(d) == Tail(d)

RECURSIVE SumProd(_)
\* Bytes the shapes need in all (itemsize 1).
SumProd(shapes) ==
    IF shapes = <<>> THEN 0 ELSE Prod(Head(shapes)) + SumProd(Tail(shapes))

RECURSIVE SliceSamples(_, _)
\* decompressed_samples, lz4 branch: cut the decompressed buffer into one
\* array per shape, np.prod(shape) * itemsize bytes each (uint8, itemsize 1).
SliceSamples(buffer, shapes) ==
    IF shapes = <<>> THEN <<>>
    ELSE LET nb == Prod(Head(shapes))
         IN  <<[shape |-> Head(shapes), buf |-> PySlice(buffer, 0, nb)]>>
                 \o SliceSamples(PySlice(buffer, nb, Len(buffer)), Tail(shapes))

\* reshape(shape) raises ValueError when the slice holds fewer bytes than the
\* shape needs, which happens iff the buffer is shorter than all shapes need.
SliceFails(buffer, shapes) == Len(buffer) < SumProd(shapes)

\* -------------------------------------------------------------- serializer
\* Blobs are sequences of bytes.  Framing fields are 4-byte big-endian,
\* table cells little-endian.
U4BE(x) ==
    <<(x \div 16777216) % 256, (x \div 65536) % 256, (x \div 256) % 256, x % 256>>

U4LE(x) ==
    <<x % 256, (x \div 256) % 256, (x \div 65536) % 256, (x \div 16777216) % 256>>

FromU4BE(b) == b[1] * 16777216 + b[2] * 65536 + b[3] * 256 + b[4]

FromU4LE(b) == b[4] * 16777216 + b[3] * 65536 + b[2] * 256 + b[1]

\* 8-byte little-endian cells of the chunk-id blob.
U8LE(x) == U4LE(x) \o <<0, 0, 0, 0>>

FromU8LE(b) == FromU4LE(SubSeq(b, 1, 4))

RECURSIVE Flatten(_)
\* The concatenation of a sequence of sequences.
Flatten(seqs) ==
    IF Len(seqs) = 0 THEN <<>> ELSE Head(seqs) \o Flatten(Tail(seqs))

\* ------------------------------------------------------------------- Chunk
CurrentVersion == "current"

\* The versions a blob may carry, and their text.
Versions == {CurrentVersion, "older"}

VersionText(v) == IF v = CurrentVersion THEN <<50>> ELSE <<49>>

DecodeVersion(text) == CHOOSE v \in Versions : VersionText(v) = text

\* A table of integer rows: [row-count][col-count][cells].
serialize_table(rows) ==
    U4BE(Len(rows)) \o U4BE(IF Len(rows) = 0 THEN 0 ELSE Len(rows[1]))
        \o Flatten([r \in 1..Len(rows) |->
                        Flatten([c \in 1..Len(rows[r]) |-> U4LE(rows[r][c])])])

\* The table that starts at position pos of the buffer, and the position
\* after it.
deserialize_table(buffer, pos) ==
    LET nrows == FromU4BE(SubSeq(buffer, pos, pos + 3))
        ncols == FromU4BE(SubSeq(buffer, pos + 4, pos + 7))
        cell(r, c) == pos + 8 + ((r - 1) * ncols + (c - 1)) * 4
    IN  [rows |-> [r \in 1..nrows |->
                      [c \in 1..ncols |-> FromU4LE(SubSeq(buffer, cell(r, c), cell(r, c) + 3))]],
         next |-> pos + 8 + nrows * ncols * 4]

\* [len(version)][version][shape table][byte-positions table][data...]
serialize_chunk(v, shapes, byte_positions, d) ==
    U4BE(Len(VersionText(v))) \o VersionText(v)
        \o serialize_table(shapes) \o serialize_table(byte_positions) \o d

deserialize_chunk(buffer) ==
    LET vlen == FromU4BE(SubSeq(buffer, 1, 4))
        st   == deserialize_table(buffer, 5 + vlen)
        bt   == deserialize_table(buffer, st.next)
    IN  [version |-> DecodeVersion(SubSeq(buffer, 5, 4 + vlen)),
         shapes |-> st.rows,
         byte_positions |-> bt.rows,
         data |-> SubSeq(buffer, bt.next, Len(buffer))]

\* [len(version)][version][row-count][rows of 8-byte cells]
serialize_chunkids(v, ids) ==
    U4BE(Len(VersionText(v))) \o VersionText(v) \o U4BE(Len(ids))
        \o Flatten([r \in 1..Len(ids) |-> U8LE(ids[r][1]) \o U8LE(ids[r][2])])

deserialize_chunkids(buffer) ==
    LET vlen  == FromU4BE(SubSeq(buffer, 1, 4))
        nrows == FromU4BE(SubSeq(buffer, 5 + vlen, 8 + vlen))
        cell(r, c) == 9 + vlen + ((r - 1) * 2 + (c - 1)) * 8
    IN  [version |-> DecodeVersion(SubSeq(buffer, 5, 4 + vlen)),
         ids |-> [r \in 1..nrows |->
                     [c \in 1..2 |-> FromU8LE(SubSeq(buffer, cell(r, c), cell(r, c) + 7))]]]

\* The arrays behind the two encoders of a chunk, as integer rows.
ShapeArray(enc) ==
    [r \in 1..Len(enc) |-> enc[r].value \o <<enc[r].last>>]

ShapeEncoderOf(rows) ==
    [r \in 1..Len(rows) |->
        [value |-> SubSeq(rows[r], 1, Len(rows[r]) - 1), last |-> rows[r][Len(rows[r])]]]

BytePositionsArray(enc) ==
    [r \in 1..Len(enc) |-> <<enc[r].value, enc[r].start, enc[r].last>>]

BytePositionsEncoderOf(rows) ==
    [r \in 1..Len(rows) |->
        [value |-> rows[r][1], start |-> rows[r][2], last |-> rows[r][3]]]

\* ffw_chunk: upgrades an older layout in place; a no-op on the current one.
ffw_chunk(v) == CurrentVersion

VARIABLES
    data,                    \* Chunk._data
    shapes_encoder,          \* Chunk.shapes_encoder (table)
    byte_positions_encoder,  \* Chunk.byte_positions_encoder (table)
    cache_samples,           \* Chunk._decompressed_samples (Optional)
    cache_data,              \* Chunk._decompressed_data (Optional)
    version,                 \* Chunk.version
    chunk_compression,       \* the tensor's chunk compression: "none" or "lz4"
    call,                    \* the last Chunk call: operation, arguments, outcome
    readback,                \* what the last decompressed_samples call returned
    written,                 \* history: the array last written to each sample
    upd                      \* history: the last change of the chunk was an
                             \* update_sample that returned

chunkVars ==
    <<data, shapes_encoder, byte_positions_encoder, cache_samples, cache_data,
      version, chunk_compression, call, readback, written, upd>>

\* What FullChunkError and TensorInvalidSampleShapeError must leave alone.
chunkState ==
    <<data, shapes_encoder, byte_positions_encoder, cache_samples, cache_data>>

num_data_bytes == Len(data)

\* Mutation: the budget itself is refused.
has_space_for_strict(nbytes_now, num_bytes, max_data_bytes) ==
    nbytes_now + num_bytes < max_data_bytes

\* Mutation: the budget is never looked at.
has_space_for_any(nbytes_now, num_bytes, max_data_bytes) ==
    nbytes_now + num_bytes >= 0

has_space_for(nbytes_now, num_bytes, max_data_bytes) ==
    nbytes_now + num_bytes <= max_data_bytes

\* A call record: the operation, its outcome, the sample index (or -1), the
\* length of the buffer and of the shape passed, and the buffer itself for
\* an update_sample that returned.
Call(op, result, k, nbytes, ndim, buf) ==
    [op |-> op, result |-> result, k |-> k, nbytes |-> nbytes, ndim |-> ndim, buf |-> buf]

ChunkInit ==
    /\ data = <<>>
    /\ shapes_encoder = <<>>
    /\ byte_positions_encoder = <<>>
    /\ cache_samples = None
    /\ cache_data = None
    /\ version = CurrentVersion
    /\ chunk_compression \in {"none", "lz4"}
    /\ call = Call("init", "ok", -1, 0, 0, <<>>)
    /\ readback = <<>>
    /\ written = <<>>
    /\ upd = FALSE

\* register_sample_to_headers: one sample in each encoder, caches cleared.
\* The three results are the new shape table, byte-positions table and caches.
headers_shapes(shape) == shape_register_samples(shapes_encoder, shape, 1)

\* Mutation: the byte positions are not registered.
headers_bytes_skipped(nb) == byte_positions_encoder

headers_bytes(nb) == bytes_register_samples(byte_positions_encoder, nb, 1)

\* Mutation: the bytes are stored before the space check.
AppendSampleEager(arr) ==
    /\ chunk_compression = "none"
    /\ NumSamples(shapes_encoder) < MaxChunkSamples
    /\ upd' = FALSE
    /\ readback' = <<>>
    /\ data' = data \o arr.buf
    /\ IF ~has_space_for(num_data_bytes, Len(arr.buf), MaxDataBytes)
       THEN /\ call' = Call("append_sample", "FullChunkError", -1, Len(arr.buf), Len(arr.shape), <<>>)
            /\ UNCHANGED <<shapes_encoder, byte_positions_encoder, cache_samples, cache_data,
                           version, chunk_compression, written>>
       ELSE /\ version' = ffw_chunk(version)
            /\ shapes_encoder' = headers_shapes(arr.shape)
            /\ byte_positions_encoder' = headers_bytes(Len(arr.buf))
            /\ cache_samples' = None
            /\ cache_data' = None
            /\ written' = Append(written, arr)
            /\ call' = Call("append_sample", "ok", -1, Len(arr.buf), Len(arr.shape), <<>>)
            /\ UNCHANGED chunk_compression

\* append_sample(buffer, max_data_bytes, shape)
AppendSample(arr) ==
    /\ chunk_compression = "none"
    /\ NumSamples(shapes_encoder) < MaxChunkSamples
    /\ upd' = FALSE
    /\ readback' = <<>>
    /\ IF ~has_space_for(num_data_bytes, Len(arr.buf), MaxDataBytes)
       THEN /\ call' = Call("append_sample", "FullChunkError", -1, Len(arr.buf), Len(arr.shape), <<>>)
            /\ UNCHANGED <<chunkState, version, chunk_compression, written>>
       ELSE /\ version' = ffw_chunk(version)
            /\ data' = data \o arr.buf
            /\ shapes_encoder' = headers_shapes(arr.shape)
            /\ byte_positions_encoder' = headers_bytes(Len(arr.buf))
            /\ cache_samples' = None
            /\ cache_data' = None
            /\ written' = Append(written, arr)
            /\ call' = Call("append_sample", "ok", -1, Len(arr.buf), Len(arr.shape), <<>>)
            /\ UNCHANGED chunk_compression

RECURSIVE RegisterAll(_, _, _)
\* for nb, shape in zip(nbytes, shapes): register_sample_to_headers(nb, shape)
\* on the pair <<shape table, byte-positions table>>.
RegisterAll(encs, shapes, nbytes) ==
    IF shapes = <<>> \/ nbytes = <<>> THEN encs
    ELSE RegisterAll(<<shape_register_samples(encs[1], Head(shapes), 1),
                       bytes_register_samples(encs[2], Head(nbytes), 1)>>,
                     Tail(shapes), Tail(nbytes))

RECURSIVE ZipArrays(_, _, _)
\* The arrays a buffer holds, cut by the nbytes list (history only).
ZipArrays(buffer, shapes, nbytes) ==
    IF shapes = <<>> \/ nbytes = <<>> THEN <<>>
    ELSE <<[shape |-> Head(shapes), buf |-> PySlice(buffer, 0, Head(nbytes))]>>
             \o ZipArrays(PySlice(buffer, Head(nbytes), Len(buffer)), Tail(shapes), Tail(nbytes))

\* extend_samples(buffer, max_data_bytes, shapes, nbytes)
ExtendSamples(buffer, shapes, nbytes) ==
    /\ chunk_compression = "none"
    /\ NumSamples(shapes_encoder) + Len(shapes) <= MaxChunkSamples
    /\ upd' = FALSE
    /\ readback' = <<>>
    /\ IF ~has_space_for(num_data_bytes, Len(buffer), MaxDataBytes)
       THEN /\ call' = Call("extend_samples", "FullChunkError", -1, Len(buffer), 0, <<>>)
            /\ UNCHANGED <<chunkState, version, chunk_compression, written>>
       ELSE LET encs == RegisterAll(<<shapes_encoder, byte_positions_encoder>>, shapes, nbytes)
            IN  /\ data' = data \o buffer
                /\ shapes_encoder' = encs[1]
                /\ byte_positions_encoder' = encs[2]
                /\ cache_samples' = IF Len(shapes) > 0 /\ Len(nbytes) > 0 THEN None ELSE cache_samples
                /\ cache_data' = IF Len(shapes) > 0 /\ Len(nbytes) > 0 THEN None ELSE cache_data
                /\ written' = written \o ZipArrays(buffer, shapes, nbytes)
                /\ call' = Call("extend_samples", "ok", -1, Len(buffer), 0, <<>>)
                /\ UNCHANGED <<version, chunk_compression>>

\* register_sample_to_headers(incoming_num_bytes, sample_shape) on the pair
\* <<shape table, byte-positions table>>; incoming_num_bytes may be None.
register_sample_to_headers(encs, incoming_num_bytes, sample_shape) ==
    <<shape_register_samples(encs[1], sample_shape, 1),
      IF incoming_num_bytes # None
      THEN bytes_register_samples(encs[2], incoming_num_bytes[1], 1)
      ELSE encs[2]>>

RECURSIVE RegisterGiven(_, _, _)
\* for nb, shape in zip(nbytes, shapes): register_sample_to_headers(nb, shape)
\* with the lists as a caller may pass them.
RegisterGiven(encs, shapes, nbytes) ==
    IF shapes = <<>> \/ nbytes = <<>> THEN encs
    ELSE RegisterGiven(register_sample_to_headers(encs, Head(nbytes), Head(shapes)),
                       Tail(shapes), Tail(nbytes))

\* The samples a buffer of equally sized samples holds, one for each shape
\* (history only).
SamplesGiven(buffer, shapes) ==
    [j \in 1..Len(shapes) |->
        [shape |-> shapes[j],
         buf |-> PySlice(buffer, (j - 1) * (Len(buffer) \div Len(shapes)),
                         j * (Len(buffer) \div Len(shapes)))]]

\* extend_samples(buffer, max_data_bytes, shapes, nbytes) with an nbytes list
\* of any length whose entries may be None.
ExtendSamplesGiven(buffer, shapes, nbytes) ==
    /\ chunk_compression = "none"
    /\ Len(written) + Len(shapes) <= MaxChunkSamples
    /\ upd' = FALSE
    /\ readback' = <<>>
    /\ IF ~has_space_for(num_data_bytes, Len(buffer), MaxDataBytes)
       THEN /\ call' = Call("extend_samples", "FullChunkError", -1, Len(buffer), 0, <<>>)
            /\ UNCHANGED <<chunkState, version, chunk_compression, written>>
       ELSE LET encs == RegisterGiven(<<shapes_encoder, byte_positions_encoder>>, shapes, nbytes)
            IN  /\ data' = data \o buffer
                /\ shapes_encoder' = encs[1]
                /\ byte_positions_encoder' = encs[2]
                /\ cache_samples' = IF Len(shapes) > 0 /\ Len(nbytes) > 0 THEN None ELSE cache_samples
                /\ cache_data' = IF Len(shapes) > 0 /\ Len(nbytes) > 0 THEN None ELSE cache_data
                /\ written' = written \o SamplesGiven(buffer, shapes)
                /\ call' = Call("extend_samples", "ok", -1, Len(buffer), 0, <<>>)
                /\ UNCHANGED <<version, chunk_compression>>

\* The chunk engine's append to a chunk under lz4 chunk compression: the
\* whole buffer is one frame, so the frame is rebuilt around the new bytes
\* and the sample is registered through register_sample_to_headers.
AppendCompressed(arr) ==
    /\ chunk_compression = "lz4"
    /\ NumSamples(shapes_encoder) < MaxLz4Samples
    /\ LET raw == IF Lz4IsFrame(data) THEN Lz4Decompress(data) ELSE <<>>
       IN  /\ Len(raw) + Len(arr.buf) <= MaxDataBytes
           /\ data' = Lz4Compress(raw \o arr.buf)
    /\ shapes_encoder' = headers_shapes(arr.shape)
    /\ byte_positions_encoder' = headers_bytes(Len(arr.buf))
    /\ cache_samples' = None
    /\ cache_data' = None
    /\ written' = Append(written, arr)
    /\ upd' = FALSE
    /\ readback' = <<>>
    /\ call' = Call("append_compressed", "ok", -1, Len(arr.buf), Len(arr.shape), <<>>)
    /\ UNCHANGED <<version, chunk_compression>>

\* [self.shapes_encoder[i] for i in range(self.shapes_encoder.num_samples)]
AllShapes(enc) ==
    [j \in 1..NumSamples(enc) |-> shape_getitem(enc, j - 1)]

\* decompressed_samples("lz4", uint8), with its call of
\* decompressed_data("lz4"); the engine reads samples that exist.
DecompressedSamples ==
    /\ chunk_compression = "lz4"
    /\ NumSamples(shapes_encoder) > 0
    /\ IF cache_samples # None
       THEN /\ readback' = cache_samples[1]
            /\ call' = Call("decompressed_samples", "ok", -1, 0, 0, <<>>)
            /\ UNCHANGED <<cache_samples, cache_data>>
       ELSE LET buffer == IF cache_data # None THEN cache_data[1] ELSE Lz4Decompress(data)
                shapes == AllShapes(shapes_encoder)
            IN  /\ cache_data' = Some(buffer)
                /\ IF SliceFails(buffer, shapes)
                   THEN /\ cache_samples' = None
                        /\ readback' = <<>>
                        /\ call' = Call("decompressed_samples", "ValueError", -1, 0, 0, <<>>)
                   ELSE /\ cache_samples' = Some(SliceSamples(buffer, shapes))
                        /\ readback' = SliceSamples(buffer, shapes)
                        /\ call' = Call("decompressed_samples", "ok", -1, 0, 0, <<>>)
    /\ UNCHANGED <<data, shapes_encoder, byte_positions_encoder, version,
                   chunk_compression, written, upd>>

\* Mutation: the right part is cut at the old start, so the old bytes stay.
SpliceKeepsOld(buffer, old_start, old_end, new_start, new_end, new_buffer) ==
    LET left  == PySlice(buffer, 0, old_start)
        right == PySlice(buffer, old_start, Len(buffer))
    IN  left \o new_buffer \o right

\* left ++ new_buffer ++ right, assembled as update_sample does: a zeroed
\* bytearray of the total length, then three slice assignments.
Splice(buffer, old_start, old_end, new_start, new_end, new_buffer) ==
    LET left  == PySlice(buffer, 0, old_start)
        right == PySlice(buffer, old_end, Len(buffer))
        a0    == ZeroBytes(Len(left) + Len(new_buffer) + Len(right))
        a1    == PySetSlice(a0, 0, new_start, left)
        a2    == PySetSlice(a1, new_start, new_end, new_buffer)
    IN  PySetSlice(a2, new_end, Len(a2), right)

\* Mutation: any shape is accepted.
shape_rejected_never(expected_dimensionality, new_shape) == FALSE

\* The dimensionality check of update_sample.
shape_rejected(expected_dimensionality, new_shape) ==
    expected_dimensionality # Len(new_shape)

\* update_sample(local_sample_index, new_buffer, new_shape, chunk_compression)
UpdateSample(k, arr) ==
    LET expected_dimensionality == Len(shape_getitem(shapes_encoder, k))
        new_nb   == Len(arr.buf)
        old      == bytes_getitem(byte_positions_encoder, k)
        newBytes == bytes_setitem(byte_positions_encoder, k, new_nb)
        new      == bytes_getitem(newBytes, k)
    IN
    /\ k \in 0..(NumSamples(shapes_encoder) - 1)
    /\ version' = ffw_chunk(version)
    /\ readback' = <<>>
    /\ UNCHANGED chunk_compression
    /\ IF shape_rejected(expected_dimensionality, arr.shape)
       THEN /\ call' = Call("update_sample", "TensorInvalidSampleShapeError", k, Len(arr.buf), Len(arr.shape), <<>>)
            /\ UNCHANGED <<chunkState, written, upd>>
       ELSE
       /\ shapes_encoder' = shape_setitem(shapes_encoder, k, arr.shape)
       /\ IF chunk_compression = "lz4"
          THEN IF cache_data = None
               \* decompressed_data() without a compression: the cache is
               \* empty, so decompress_array is given the lz4 frame and
               \* rejects it.
               THEN /\ call' = Call("update_sample", "SampleDecompressionError", k, Len(arr.buf), Len(arr.shape), <<>>)
                    /\ upd' = FALSE
                    /\ UNCHANGED <<data, byte_positions_encoder, cache_samples, cache_data, written>>
               ELSE LET out == Splice(cache_data[1], old[1], old[2], new[1], new[2], arr.buf)
                    IN  /\ byte_positions_encoder' = newBytes
                        /\ data' = Lz4Compress(out)
                        /\ cache_data' = Some(out)
                        /\ UNCHANGED cache_samples
                        /\ written' = [written EXCEPT ![k + 1] = arr]
                        /\ upd' = TRUE
                        /\ call' = Call("update_sample", "ok", k, Len(arr.buf), Len(arr.shape), arr.buf)
          ELSE /\ byte_positions_encoder' = newBytes
               /\ data' = Splice(data, old[1], old[2], new[1], new[2], arr.buf)
               /\ written' = [written EXCEPT ![k + 1] = arr]
               /\ upd' = TRUE
               /\ call' = Call("update_sample", "ok", k, Len(arr.buf), Len(arr.shape), arr.buf)
               /\ UNCHANGED <<cache_samples, cache_data>>

\* Chunk.tobytes()
chunk_tobytes ==
    serialize_chunk(version, ShapeArray(shapes_encoder),
                    BytePositionsArray(byte_positions_encoder), data)

\* Chunk(): the fields of an empty chunk.
EmptyChunk ==
    [version |-> CurrentVersion, shapes |-> <<>>, byte_positions |-> <<>>, data |-> <<>>]

\* Mutation: the data of the blob is not handed to the new chunk.
chunk_frombuffer_no_data(buffer) ==
    IF buffer = <<>> THEN EmptyChunk
    ELSE LET d == deserialize_chunk(buffer)
         IN  [version |-> d.version,
              shapes |-> ShapeEncoderOf(d.shapes),
              byte_positions |-> BytePositionsEncoderOf(d.byte_positions),
              data |-> <<>>]

\* Mutation: an empty buffer gives the chunk that was asked.
chunk_frombuffer_self(buffer) ==
    IF buffer = <<>>
    THEN [version |-> version, shapes |-> shapes_encoder,
          byte_positions |-> byte_positions_encoder, data |-> data]
    ELSE LET d == deserialize_chunk(buffer)
         IN  [version |-> d.version,
              shapes |-> ShapeEncoderOf(d.shapes),
              byte_positions |-> BytePositionsEncoderOf(d.byte_positions),
              data |-> d.data]

\* Chunk.frombuffer(buffer): the fields of the chunk it returns.
chunk_frombuffer(buffer) ==
    IF buffer = <<>> THEN EmptyChunk
    ELSE LET d == deserialize_chunk(buffer)
         IN  [version |-> d.version,
              shapes |-> ShapeEncoderOf(d.shapes),
              byte_positions |-> BytePositionsEncoderOf(d.byte_positions),
              data |-> d.data]

\* The chunk is replaced by Chunk.frombuffer(buffer).
ChunkFromBuffer(buffer) ==
    LET chunk == chunk_frombuffer(buffer)
    IN  /\ data' = chunk.data
        /\ shapes_encoder' = chunk.shapes
        /\ byte_positions_encoder' = chunk.byte_positions
        /\ version' = chunk.version
        /\ cache_samples' = None
        /\ cache_data' = None
        /\ call' = Call("frombuffer", "ok", -1, Len(buffer), 0, <<>>)
        /\ readback' = <<>>
        /\ written' = IF buffer = <<>> THEN <<>> ELSE written
        /\ upd' = FALSE
        /\ UNCHANGED chunk_compression

\* ---------------------------------------------------------- ChunkIdEncoder
VARIABLES
    encoded,   \* ChunkIdEncoder._encoded: rows [id, last]
    idcall,    \* the last ChunkIdEncoder call: operation, argument, outcome
    regLog,    \* history: per row, the number of register_samples calls it
               \* took, the samples registered to it less those popped from
               \* it, and whether one of the calls registered 0 samples
    pops       \* history: number of _pop calls made

idVars == <<encoded, idcall, regLog, pops>>

Ids == 1..NumIds

\* Cast of a Python int into ENCODING_DTYPE (unsigned wrap-around).
ENCODING_DTYPE(x) == x % EncodingModulus

IdCall(op, result, n, ids) ==
    [op |-> op, result |-> result, n |-> n, ids |-> ids, name |-> <<>>]

IdInit ==
    /\ encoded = <<>>
    /\ idcall = IdCall("init", "ok", 0, <<>>)
    /\ regLog = <<>>
    /\ pops = 0

num_samples(enc) == NumSamples(enc)

num_chunks(enc) ==
    IF num_samples(enc) = 0 THEN 0 ELSE Len(enc)

\* The table after generate_chunk_id() drew id.
generate_chunk_id(enc, id) ==
    IF num_samples(enc) = 0
    THEN <<[id |-> id, last |-> ENCODING_DTYPE(-1)]>>
    ELSE Append(enc, [id |-> id, last |-> ENCODING_DTYPE(num_samples(enc) - 1)])

NoCalls == [calls |-> 0, n |-> 0, zero |-> FALSE]

GenerateChunkId(id) ==
    /\ Len(encoded) < MaxChunks
    /\ encoded' = generate_chunk_id(encoded, id)
    /\ regLog' = IF num_samples(encoded) = 0 THEN <<NoCalls>> ELSE Append(regLog, NoCalls)
    /\ idcall' = IdCall("generate_chunk_id", "ok", 0, <<id>>)
    /\ UNCHANGED pops

\* Mutation: a continuation is accepted on any non-empty table.
validate_incoming_item_one_row(enc, n) ==
    IF n < 0 THEN "ValueError"
    ELSE IF num_samples(enc) = 0 THEN "ChunkIdEncoderError"
    ELSE IF n = 0 /\ num_chunks(enc) < 1 THEN "ChunkIdEncoderError"
    ELSE "ok"

\* Mutation: the sign of the count is not looked at.
validate_incoming_item_any_sign(enc, n) ==
    IF num_samples(enc) = 0 THEN "ChunkIdEncoderError"
    ELSE IF n = 0 /\ num_chunks(enc) < 2 THEN "ChunkIdEncoderError"
    ELSE "ok"

\* _validate_incoming_item: the error raised, or "ok".
validate_incoming_item(enc, n) ==
    IF n < 0 THEN "ValueError"
    ELSE IF num_samples(enc) = 0 THEN "ChunkIdEncoderError"
    ELSE IF n = 0 /\ num_chunks(enc) < 2 THEN "ChunkIdEncoderError"
    ELSE "ok"

\* Mutation: the last-seen index moves one too far.
derive_next_last_index_one_more(last_index, n) ==
    (last_index + ENCODING_DTYPE(n) + 1) % EncodingModulus

\* _derive_next_last_index: unsigned addition, wrapping.
derive_next_last_index(last_index, n) ==
    (last_index + ENCODING_DTYPE(n)) % EncodingModulus

\* Encoder.register_samples with the always-true combine condition: the
\* last row's last-seen index moves on by n.
register_samples(enc, n) ==
    [enc EXCEPT ![Len(enc)].last = derive_next_last_index(@, n)]

\* Samples the table counts, read modulo the unsigned width (the sentinel
\* counts as none); used to bound the registrations.
CountedSamples(enc) ==
    IF Len(enc) = 0 THEN 0 ELSE num_samples(enc) % EncodingModulus

RegisterSamples(n) ==
    /\ CountedSamples(encoded) + n <= MaxSamples
    /\ Len(regLog) > 0 => regLog[Len(regLog)].calls < MaxRegisterCalls
    /\ UNCHANGED pops
    /\ LET result == validate_incoming_item(encoded, n)
       IN  /\ idcall' = IdCall("register_samples", result, n, <<>>)
           /\ IF result = "ok"
              THEN /\ encoded' = register_samples(encoded, n)
                   /\ regLog' = [regLog EXCEPT ![Len(regLog)] =
                                     [calls |-> @.calls + 1, n |-> @.n + n, zero |-> @.zero \/ n = 0]]
              ELSE UNCHANGED <<encoded, regLog>>

\* Mutation: the rows after the matched one are not looked at.
ContinuationSkipped(enc, row_index, local_sample_index, output) == output

RECURSIVE Continuation(_, _, _, _)
\* The while loop of __getitem__: the rows after the matched one whose
\* last-seen equals the index as it was passed.  Each pair is
\* <<id, row index>>, the row index taken after its increment.
Continuation(enc, row_index, local_sample_index, output) ==
    IF row_index < Len(enc) /\ enc[row_index + 1].last = local_sample_index
    THEN Continuation(enc, row_index + 1, local_sample_index,
                      Append(output, <<enc[row_index + 1].id, row_index + 1>>))
    ELSE output

\* __getitem__(local_sample_index, return_row_index=True)
getitem_rows(enc, local_sample_index) ==
    LET row_index == translate_index(enc, local_sample_index)
    IN  Continuation(enc, row_index + 1, local_sample_index,
                     <<<<enc[row_index + 1].id, row_index>>>>)

\* __getitem__(local_sample_index): the ids alone.
getitem(enc, local_sample_index) ==
    LET rows == getitem_rows(enc, local_sample_index)
    IN  [j \in 1..Len(rows) |-> rows[j][1]]

\* Mutation: the preceding row's last-seen index is taken for its count.
translate_index_relative_to_chunks_short(enc, global_sample_index) ==
    LET ls == getitem_rows(enc, global_sample_index)
        chunk_index == ls[1][2]
    IN  IF chunk_index = 0
        THEN global_sample_index
        ELSE global_sample_index - enc[chunk_index].last

\* translate_index_relative_to_chunks, past its assertion: the rows are
\* 1-based here, so enc[chunk_index] is the row before the sample's.
translate_index_relative_to_chunks(enc, global_sample_index) ==
    LET ls == getitem_rows(enc, global_sample_index)
        chunk_index == ls[1][2]
    IN  IF chunk_index = 0
        THEN global_sample_index
        ELSE LET last_num_samples == enc[chunk_index].last + 1
             IN  global_sample_index - last_num_samples

\* A call of translate_index_relative_to_chunks on an index the table
\* covers; idcall.ids carries the returned local index.
TranslateIndexRelativeToChunks(global_sample_index) ==
    /\ global_sample_index < num_samples(encoded)
    /\ idcall' =
          IF Len(getitem_rows(encoded, global_sample_index)) = 1
          THEN IdCall("translate_index_relative_to_chunks", "ok", global_sample_index,
                      <<translate_index_relative_to_chunks(encoded, global_sample_index)>>)
          ELSE IdCall("translate_index_relative_to_chunks", "AssertionError",
                      global_sample_index, <<>>)
    /\ UNCHANGED <<encoded, regLog, pops>>

num_samples_in_last_chunk(enc) ==
    IF Len(enc) = 0 THEN 0
    ELSE IF Len(enc) = 1 THEN enc[Len(enc)].last + 1
    ELSE (enc[Len(enc)].last - enc[Len(enc) - 1].last) % EncodingModulus

\* _pop(): <<table afterwards, returned ids>>
pop(enc) ==
    LET chunk_ids_for_last_sample == getitem(enc, -1)
    IN  IF Len(chunk_ids_for_last_sample) > 1
        THEN <<SubSeq(enc, 1, Len(enc) - Len(chunk_ids_for_last_sample)),
               chunk_ids_for_last_sample>>
        ELSE IF num_samples_in_last_chunk(enc) = 1
        THEN <<SubSeq(enc, 1, Len(enc) - 1), chunk_ids_for_last_sample>>
        ELSE <<[enc EXCEPT ![Len(enc)].last = (@ - 1) % EncodingModulus], <<>>>>

Pop ==
    /\ pops < MaxPops
    /\ pops' = pops + 1
    /\ IF Len(encoded) = 0
       THEN /\ idcall' = IdCall("_pop", "IndexError", 0, <<>>)
            /\ UNCHANGED <<encoded, regLog>>
       ELSE LET out == pop(encoded)
            IN  /\ encoded' = out[1]
                /\ idcall' = IdCall("_pop", "ok", 0, out[2])
                /\ regLog' = IF Len(out[1]) < Len(encoded)
                             THEN SubSeq(regLog, 1, Len(out[1]))
                             ELSE [regLog EXCEPT ![Len(regLog)].n = @ - 1]

\* Text is a sequence of one-character strings.
HexDigits ==
    <<"0", "1", "2", "3", "4", "5", "6", "7", "8", "9", "a", "b", "c", "d", "e", "f">>

RECURSIVE HexText(_)
\* The digits Python's hex() writes for a non-negative integer.
HexText(x) ==
    IF x < 16 THEN <<HexDigits[x + 1]>>
    ELSE HexText(x \div 16) \o <<HexDigits[(x % 16) + 1]>>

\* hex(x)
hex(x) == <<"0", "x">> \o HexText(x)

IsHexDigit(c) == \E d \in 1..16 : HexDigits[d] = c

DigitValue(c) == (CHOOSE d \in 1..16 : HexDigits[d] = c) - 1

RECURSIVE DigitsValue(_)
DigitsValue(text) ==
    IF Len(text) = 0 THEN 0
    ELSE DigitsValue(SubSeq(text, 1, Len(text) - 1)) * 16 + DigitValue(text[Len(text)])

\* The digits int(text, 16) reads: an optional "0x", then the rest.
Base16Digits(text) ==
    IF Len(text) >= 2 /\ text[1] = "0" /\ text[2] = "x"
    THEN SubSeq(text, 3, Len(text))
    ELSE text

\* int(text, 16) raises ValueError unless this holds.
Base16Valid(text) ==
    /\ Len(Base16Digits(text)) > 0
    /\ \A j \in 1..Len(Base16Digits(text)) : IsHexDigit(Base16Digits(text)[j])

\* Mutation: the prefix is left on the name.
name_from_id_prefixed(id) == hex(id)

\* name_from_id(id): hex(id)[2:]
name_from_id(id) == SubSeq(hex(id), 3, Len(hex(id)))

\* id_from_name(name): int("0x" + name, 16), where it does not raise.
id_from_name(name) == DigitsValue(Base16Digits(<<"0", "x">> \o name))

\* name_from_id(id), and id_from_name of the name it gave.
NameFromId(id) ==
    LET name == name_from_id(id)
    IN  /\ idcall' =
              IF Base16Valid(<<"0", "x">> \o name)
              THEN [op |-> "name_from_id", result |-> "ok", n |-> id,
                    ids |-> <<id_from_name(name)>>, name |-> name]
              ELSE [op |-> "name_from_id", result |-> "ValueError", n |-> id,
                    ids |-> <<>>, name |-> name]
        /\ UNCHANGED <<encoded, regLog, pops>>

\* ChunkIdEncoder.tobytes()
ids_tobytes(enc) ==
    serialize_chunkids(CurrentVersion, [r \in 1..Len(enc) |-> <<enc[r].id, enc[r].last>>])

\* ChunkIdEncoder.frombuffer(buffer): the table and version of the
\* instance it returns.
ids_frombuffer(buffer) ==
    IF buffer = <<>> THEN [encoded |-> <<>>, version |-> CurrentVersion]
    ELSE LET d == deserialize_chunkids(buffer)
         IN  [encoded |-> IF Len(d.ids) > 0
                          THEN [r \in 1..Len(d.ids) |-> [id |-> d.ids[r][1], last |-> d.ids[r][2]]]
                          ELSE <<>>,
              version |-> d.version]

\* The encoder is replaced by ChunkIdEncoder.frombuffer(buffer).
IdsFromBuffer(buffer) ==
    /\ encoded' = ids_frombuffer(buffer).encoded
    /\ idcall' = IdCall("frombuffer", "ok", Len(buffer), <<>>)
    /\ regLog' = IF buffer = <<>> THEN <<>> ELSE regLog
    /\ UNCHANGED pops

\* ------------------------------------------------------------------ Tensor
VARIABLES
    tensor,    \* a Tensor view: its uuid and its slice
    key,       \* the tensor_slice last handed to Tensor.__getitem__ of it
    view,      \* the Tensor that call returned, if any
    depth      \* history: number of __getitem__ calls that led to tensor

tensorVars == <<tensor, key, view, depth>>

\* Longest primary axis a view is resolved against.
MaxAxis == 4
\* Largest start or stop of a slice, and largest integer, used as an index.
MaxSliceIndex == 2
\* Largest step of a slice used as an index.
MaxSliceStep == 2
\* Most __getitem__ calls chained from the root view.
MaxViewDepth == 2

\* slice(start, stop, step); every field is optional.
Slice(start, stop, step) == [kind |-> "slice", start |-> start, stop |-> stop, step |-> step]

\* An integer index.
IntKey(i) == [kind |-> "int", start |-> Some(i), stop |-> None, step |-> None]

OrElse(opt, default) == IF opt = None THEN default ELSE opt[1]

Clamp(i, n) == IF i < 0 THEN Max(i + n, 0) ELSE Min(i, n)

Range(start, stop, step) ==
    [k \in 1..(IF stop > start THEN (stop - start + step - 1) \div step ELSE 0)
        |-> start + (k - 1) * step]

\* The indices of an axis of length n that a slice of positive step selects.
resolve(s, n) ==
    Range(Clamp(OrElse(s.start, 0), n), Clamp(OrElse(s.stop, n), n), OrElse(s.step, 1))

\* list[s] for a slice, list[i:i+1]-like for an integer that is in range.
Select(k, list) ==
    IF k.kind = "int"
    THEN LET i == IF k.start[1] < 0 THEN k.start[1] + Len(list) ELSE k.start[1]
         IN  IF i >= 0 /\ i < Len(list) THEN <<list[i + 1]>> ELSE <<>>
    ELSE LET picked == resolve(k, Len(list))
         IN  [j \in 1..Len(picked) |-> list[picked[j] + 1]]

\* An integer index collapses to a slice of length one.
VirtualSlice(k) ==
    IF k.kind = "int" THEN Slice(k.start, Some(k.start[1] + 1), None) ELSE k

\* hub.util.slice.merge_slices: the one slice over the original axis that
\* stands for the child index taken of the parent slice.  It is given the
\* two slices only, never the length of the axis.
merge_slices(existing_slice, new_slice) ==
    LET child  == VirtualSlice(new_slice)
        start1 == OrElse(existing_slice.start, 0)
        step1  == OrElse(existing_slice.step, 1)
        start2 == OrElse(child.start, 0)
        step2  == OrElse(child.step, 1)
        stops  == (IF existing_slice.stop = None THEN {} ELSE {existing_slice.stop[1]})
                  \cup (IF child.stop = None THEN {} ELSE {start1 + child.stop[1] * step1})
    IN  Slice(Some(start1 + start2 * step1),
              IF stops = {} THEN None ELSE Some(CHOOSE m \in stops : \A o \in stops : m <= o),
              Some(step1 * step2))

\* Tensor(uuid, tensor_slice)
Tensor(uuid, tensor_slice) == [uuid |-> uuid, slice |-> tensor_slice]

\* Tensor.__getitem__ with its arguments to merge_slices exchanged.
tensor_getitem_swapped(self, tensor_slice) ==
    Tensor(self.uuid, merge_slices(VirtualSlice(tensor_slice), self.slice))

\* Tensor.__getitem__
tensor_getitem(self, tensor_slice) ==
    Tensor(self.uuid, merge_slices(self.slice, tensor_slice))

OptionalIn(S) == {None} \cup {Some(v) : v \in S}

\* The indices handed to Tensor.__getitem__.
Keys ==
    {Slice(a, b, c) : a \in OptionalIn((-1)..MaxSliceIndex),
                      b \in OptionalIn((-1)..MaxSliceIndex),
                      c \in OptionalIn(1..MaxSliceStep)}
    \cup {IntKey(i) : i \in (-1)..MaxSliceIndex}

TensorInit ==
    /\ tensor = Tensor("uuid", Slice(None, None, None))
    /\ key = Slice(None, None, None)
    /\ view = None
    /\ depth = 0

\* view = tensor[k]
TensorGetItem(k) ==
    /\ key' = k
    /\ view' = Some(tensor_getitem(tensor, k))
    /\ UNCHANGED <<tensor, depth>>

\* The caller goes on with the view it was returned.
TensorDescend ==
    /\ view # None
    /\ depth < MaxViewDepth
    /\ tensor' = view[1]
    /\ view' = None
    /\ depth' = depth + 1
    /\ UNCHANGED key

\* ------------------------------------------------------------- GCSProvider
VARIABLES
    blobs,      \* the bucket: blob name -> contents, None where no blob is
    read_only,  \* StorageProvider.read_only
    gcscall     \* the last GCSProvider call: operation, arguments, outcome

gcsVars == <<blobs, read_only, gcscall>>

\* Keys are relative POSIX-style paths; one segment stands for each.
GcsKeys == {"a", "b"}

\* GCSProvider.path, as a sequence of segments ("bucket/ds/").
GcsPath == <<"bucket", "ds">>

\* GCSProvider._get_path_from_key: posixpath.join(self.path, key)
get_path_from_key(k) == GcsPath \o <<k>>

\* A placeholder blob named as the root itself; its name ends with "/".
RootPlaceholder == GcsPath \o <<"">>

EndsWithSlash(name) == name[Len(name)] = ""

\* Blob names of the bucket: under the provider's root, and beside it.
BlobNames ==
    {get_path_from_key(k) : k \in GcsKeys} \cup {RootPlaceholder}
    \cup {<<"bucket", "other", k>> : k \in GcsKeys}

\* bytes or memoryview values handed to __setitem__.
GcsValues == {[kind |-> t, bytes |-> b] : t \in {"bytes", "memoryview"}, b \in {<<0>>, <<1>>}}

\* What upload_from_string is handed: memoryview.tobytes() for a memoryview,
\* the bytes object itself otherwise; either way the bytes alone.
upload_value(value) == value.bytes

HasPrefix(name, prefix) ==
    /\ Len(name) >= Len(prefix)
    /\ \A j \in 1..Len(prefix) : name[j] = prefix[j]

\* client_bucket.list_blobs(prefix=self.path)
list_blobs(b) == {name \in BlobNames : b[name] # None /\ HasPrefix(name, GcsPath)}

GcsCall(op, k, result, arg, value, names, count) ==
    [op |-> op, key |-> k, result |-> result, arg |-> arg, value |-> value,
     names |-> names, count |-> count]

\* The bucket holds a blob of another dataset and a placeholder for the root.
GcsInit ==
    /\ blobs = [name \in BlobNames |->
                    IF name = <<"bucket", "other", "a">> THEN Some(<<1>>)
                    ELSE IF name = RootPlaceholder THEN Some(<<>>)
                    ELSE None]
    /\ read_only = FALSE
    /\ gcscall = GcsCall("init", "", "ok", None, None, {}, 0)

\* GCSProvider.missing_exceptions without AttributeError.
missing_exceptions_files_only ==
    {"FileNotFoundError", "IsADirectoryError", "NotADirectoryError"}

\* GCSProvider.missing_exceptions
missing_exceptions ==
    {"FileNotFoundError", "IsADirectoryError", "NotADirectoryError", "AttributeError"}

\* StorageProvider.check_readonly
check_readonly(ro) == IF ro THEN "ReadOnlyModeError" ELSE "ok"

\* What the try block of __getitem__ does: get_blob returns None where no
\* blob is, and None has no download_as_bytes.
gcs_download(b, k) ==
    LET blob == b[get_path_from_key(k)]
    IN  IF blob = None THEN [raised |-> "AttributeError", value |-> None]
        ELSE [raised |-> "", value |-> blob]

\* GCSProvider.__getitem__
gcs_getitem(b, k) ==
    LET got == gcs_download(b, k)
    IN  IF got.raised = "" THEN [result |-> "ok", value |-> got.value]
        ELSE IF got.raised \in missing_exceptions THEN [result |-> "KeyError", value |-> None]
        ELSE [result |-> got.raised, value |-> None]

\* GCSProvider.__setitem__ without its check_readonly call.
gcs_setitem_unchecked(b, ro, k, value) ==
    [result |-> "ok",
     blobs |-> [b EXCEPT ![get_path_from_key(k)] = Some(upload_value(value))]]

\* GCSProvider.__setitem__
gcs_setitem(b, ro, k, value) ==
    IF check_readonly(ro) # "ok" THEN [result |-> check_readonly(ro), blobs |-> b]
    ELSE [result |-> "ok",
          blobs |-> [b EXCEPT ![get_path_from_key(k)] = Some(upload_value(value))]]

\* GCSProvider.__delitem__; Blob.delete() of a blob that is not there raises
\* the client's NotFound.
gcs_delitem(b, ro, k) ==
    IF check_readonly(ro) # "ok" THEN [result |-> check_readonly(ro), blobs |-> b]
    ELSE IF b[get_path_from_key(k)] = None THEN [result |-> "NotFound", blobs |-> b]
    ELSE [result |-> "ok", blobs |-> [b EXCEPT ![get_path_from_key(k)] = None]]

\* GCSProvider.clear
gcs_clear(b, ro) ==
    IF check_readonly(ro) # "ok" THEN [result |-> check_readonly(ro), blobs |-> b]
    ELSE [result |-> "ok",
          blobs |-> [name \in BlobNames |-> IF name \in list_blobs(b) THEN None ELSE b[name]]]

\* GCSProvider._list_keys
list_keys(b) == list_blobs(b)

GcsGet(k) ==
    /\ gcscall' = GcsCall("get", k, gcs_getitem(blobs, k).result, None,
                          gcs_getitem(blobs, k).value, {}, 0)
    /\ UNCHANGED <<blobs, read_only>>

GcsSet(k, value) ==
    /\ blobs' = gcs_setitem(blobs, read_only, k, value).blobs
    /\ gcscall' = GcsCall("set", k, gcs_setitem(blobs, read_only, k, value).result,
                          Some(value.bytes), None, {}, 0)
    /\ UNCHANGED read_only

GcsDel(k) ==
    /\ blobs' = gcs_delitem(blobs, read_only, k).blobs
    /\ gcscall' = GcsCall("del", k, gcs_delitem(blobs, read_only, k).result, None, None, {}, 0)
    /\ UNCHANGED read_only

GcsClear ==
    /\ blobs' = gcs_clear(blobs, read_only).blobs
    /\ gcscall' = GcsCall("clear", "", gcs_clear(blobs, read_only).result, None, None, {}, 0)
    /\ UNCHANGED read_only

\* GCSProvider.__contains__
GcsContains(k) ==
    /\ gcscall' = GcsCall("contains", k,
                          IF blobs[get_path_from_key(k)] # None THEN "True" ELSE "False",
                          None, None, {}, 0)
    /\ UNCHANGED <<blobs, read_only>>

\* What __iter__ yields: the listed names that do not end with "/".
gcs_iter(b) == {name \in list_keys(b) : ~EndsWithSlash(name)}

\* What __len__ returns: the number of listed names.
gcs_len(b) == Cardinality(list_keys(b))

\* GCSProvider.__iter__
GcsIter ==
    /\ gcscall' = GcsCall("iter", "", "ok", None, None, gcs_iter(blobs), 0)
    /\ UNCHANGED <<blobs, read_only>>

\* GCSProvider.__len__
GcsLen ==
    /\ gcscall' = GcsCall("len", "", "ok", None, None, {}, gcs_len(blobs))
    /\ UNCHANGED <<blobs, read_only>>

\* The key k as the segments of its path.
KeyPath(k) == <<k>>

\* _get_path_from_key of a name that iteration yielded: the name is a
\* relative path, so posixpath.join puts self.path in front of it.
get_path_from_name(f) == GcsPath \o f

\* client_bucket.get_blob(name): None where the bucket holds no such blob.
get_blob(b, name) == IF name \in BlobNames THEN b[name] ELSE None

\* GCSProvider.__getitem__ handed a name that iteration yielded.
gcs_getitem_name(b, f) ==
    LET blob == get_blob(b, get_path_from_name(f))
        raised == IF blob = None THEN "AttributeError" ELSE ""
    IN  IF raised = "" THEN [result |-> "ok", value |-> blob]
        ELSE IF raised \in missing_exceptions THEN [result |-> "KeyError", value |-> None]
        ELSE [result |-> raised, value |-> None]

\* GCSProvider.__contains__ handed a name that iteration yielded.
gcs_contains_name(b, f) ==
    IF get_blob(b, get_path_from_name(f)) # None THEN "True" ELSE "False"

\* for f in provider: provider[f]
GcsGetYielded(f) ==
    /\ f \in gcs_iter(blobs)
    /\ gcscall' = GcsCall("get_yielded", "", gcs_getitem_name(blobs, f).result, None,
                          gcs_getitem_name(blobs, f).value, {f}, 0)
    /\ UNCHANGED <<blobs, read_only>>

\* for f in provider: f in provider
GcsContainsYielded(f) ==
    /\ f \in gcs_iter(blobs)
    /\ gcscall' = GcsCall("contains_yielded", "", gcs_contains_name(blobs, f), None,
                          None, {f}, 0)
    /\ UNCHANGED <<blobs, read_only>>

\* The provider is put in read-only mode.
GcsEnableReadonly ==
    /\ ~read_only
    /\ read_only' = TRUE
    /\ gcscall' = GcsCall("enable_readonly", "", "ok", None, None, {}, 0)
    /\ UNCHANGED blobs

\* --------------------------------------------------------------- transform
VARIABLES
    tr_job,     \* the eval call: pipeline, scheduler, output storage, num_workers
    tr_phase,   \* "idle", "running", "done" or "error"
    tr_result,  \* what eval returned or raised
    tr_shards,  \* per worker: the inputs of its shard, how many of them it
                \* has transformed, and the samples it has produced
    tr_order,   \* history: the inputs in the order they were transformed
    tr_out      \* the samples of the output dataset

trVars == <<tr_job, tr_phase, tr_result, tr_shards, tr_order, tr_out>>

\* Number of inputs handed to eval.
MaxInputs == 4
\* TRANSFORM_TEST_NUM_WORKERS
TestNumWorkers == 2

schedulers == {"threaded", "processed", "ray"}

\* The storage behind the output dataset, its cache removed.
OutputStorages == {"memory", "local"}

\* fn1 and fn2: copy samples, each sample_in * mul.
fn_copy(sample_in, mul, copy) == [j \in 1..copy |-> sample_in * mul]

\* filter_tr: the input itself when it is even, nothing otherwise.
filter_tr(sample_in) == IF sample_in % 2 = 0 THEN <<sample_in>> ELSE <<>>

\* One function of a pipeline applied to one sample.
run_stage(stage, sample_in) ==
    IF stage.fn = "filter_tr" THEN filter_tr(sample_in)
    ELSE fn_copy(sample_in, stage.mul, stage.copy)

RECURSIVE run_pipeline(_, _)
\* The samples a pipeline appends for one input: every function is applied
\* to every sample the function before it appended, in order.
run_pipeline(stages, sample_in) ==
    IF Len(stages) = 0 THEN <<sample_in>>
    ELSE Flatten([j \in 1..Len(run_stage(Head(stages), sample_in)) |->
                    run_pipeline(Tail(stages), run_stage(Head(stages), sample_in)[j])])

\* The evaluations the tests make.
Stage(fn, mul, copy) == [fn |-> fn, mul |-> mul, copy |-> copy]

Pipelines ==
    [single |-> <<Stage("fn2", 2, 1)>>,
     chain  |-> <<Stage("fn1", 5, 2), Stage("fn2", 3, 3)>>,
     filter |-> <<Stage("filter_tr", 1, 1)>>]

\* data_in: samples 1..N for the dataset input, the list 0..N-1 otherwise.
InputsOf(name) ==
    IF name = "single" THEN [j \in 1..MaxInputs |-> j] ELSE [j \in 1..MaxInputs |-> j - 1]

Job(name, scheduler, storage, num_workers) ==
    [pipeline |-> name, scheduler |-> scheduler, storage |-> storage,
     num_workers |-> num_workers]

\* eval refuses an in-memory output dataset whatever num_workers is.
invalid_output_dataset_any_workers(job) ==
    job.storage = "memory" /\ job.scheduler # "threaded"

\* eval refuses an in-memory output dataset that workers of another process
\* would have to write.
invalid_output_dataset(job) ==
    job.storage = "memory" /\ job.scheduler # "threaded" /\ job.num_workers > 0

\* num_workers = 0 runs single threaded irrespective of the scheduler.
worker_count(job) == IF job.num_workers = 0 THEN 1 ELSE job.num_workers

\* The inputs are cut into one contiguous slice per worker.
shard_inputs(inputs, workers, w) ==
    LET size == (Len(inputs) + workers - 1) \div workers
        first == (w - 1) * size + 1
        last == Min(w * size, Len(inputs))
    IN  [j \in 1..Max(last - first + 1, 0) |-> inputs[first + j - 1]]

\* The shards' samples appended to the output in the reverse of shard order.
merge_shards_reversed(shards) ==
    Flatten([w \in 1..Len(shards) |-> shards[Len(shards) + 1 - w].out])

\* The shards' samples appended to the output in shard order.
merge_shards(shards) == Flatten([w \in 1..Len(shards) |-> shards[w].out])

TransformInit ==
    /\ tr_job = Job("single", "threaded", "local", 0)
    /\ tr_phase = "idle"
    /\ tr_result = ""
    /\ tr_shards = <<>>
    /\ tr_order = <<>>
    /\ tr_out = <<>>

\* pipeline.eval(data_in, ds_out, num_workers, scheduler) is entered.
TransformEval(job) ==
    /\ tr_phase = "idle"
    /\ tr_job' = job
    /\ IF invalid_output_dataset(job)
       THEN /\ tr_phase' = "error"
            /\ tr_result' = "InvalidOutputDatasetError"
            /\ UNCHANGED tr_shards
       ELSE /\ tr_phase' = "running"
            /\ tr_result' = ""
            /\ tr_shards' = [w \in 1..worker_count(job) |->
                    [inputs |-> shard_inputs(InputsOf(job.pipeline), worker_count(job), w),
                     done |-> 0, out |-> <<>>]]
    /\ UNCHANGED <<tr_order, tr_out>>

\* Worker w transforms the next input of its shard.
TransformWork(w) ==
    /\ tr_phase = "running"
    /\ w \in 1..Len(tr_shards)
    /\ tr_shards[w].done < Len(tr_shards[w].inputs)
    /\ LET sample_in == tr_shards[w].inputs[tr_shards[w].done + 1]
       IN  /\ tr_shards' = [tr_shards EXCEPT
                ![w].done = @ + 1,
                ![w].out = @ \o run_pipeline(Pipelines[tr_job.pipeline], sample_in)]
           /\ tr_order' = Append(tr_order, sample_in)
    /\ UNCHANGED <<tr_job, tr_phase, tr_result, tr_out>>

\* Every worker is through; the shards are merged into the output dataset.
TransformMerge ==
    /\ tr_phase = "running"
    /\ \A w \in 1..Len(tr_shards) : tr_shards[w].done = Len(tr_shards[w].inputs)
    /\ tr_out' = tr_out \o merge_shards(tr_shards)
    /\ tr_phase' = "done"
    /\ tr_result' = "ok"
    /\ UNCHANGED <<tr_job, tr_shards, tr_order>>

\* ------------------------------------------------------------ chunk engine
VARIABLES
    eng_encoder,    \* the engine's chunk-id encoder (rows [id, last])
    eng_cache,      \* the cache: chunk id -> the Chunk under T/chunks/<id>,
                    \* as the samples it holds, None where no chunk is
    eng_dirty,      \* ids of the chunks marked dirty in the cache
    eng_appended,   \* history: number of samples appended
    eng_flush,      \* 0 when no flush is under way, else the flush step due
    eng_crashed,    \* the writer crashed
    store_chunks,   \* the store: chunk id -> blob, None where no blob is
    store_encoder,  \* the store: T/chunks_index/unsharded
    store_meta      \* the store: length kept in T/tensor_meta.json

engVars ==
    <<eng_encoder, eng_cache, eng_dirty, eng_appended, eng_flush, eng_crashed,
      store_chunks, store_encoder, store_meta>>

\* Most samples appended to a tensor that is flushed.
MaxDurableAppends == 4
\* DEFAULT_CHUNK_MAX_SIZE of the example.
ChunkMaxSize == 256
\* The example's number of samples and the bytes of each.
ExampleSamples == 10

ExampleSampleBytes == 100

\* Sizes of the samples appended to a tensor that is flushed.
SampleSizes == {ExampleSampleBytes, 2 * ExampleSampleBytes}

RECURSIVE chunk_data_bytes(_)
\* Chunk.num_data_bytes of a chunk given as the samples it holds.
chunk_data_bytes(samples) ==
    IF Len(samples) = 0 THEN 0
    ELSE Head(samples).nbytes + chunk_data_bytes(Tail(samples))

\* The last chunk of the tensor: the chunk of the encoder's last row.
last_chunk_id(enc) == enc[Len(enc)].id

\* Whether step 2 of the append applies: a last chunk exists and has space.
appends_to_last_chunk(enc, cache, nbytes) ==
    /\ Len(enc) > 0
    /\ cache[last_chunk_id(enc)] # None
    /\ has_space_for(chunk_data_bytes(cache[last_chunk_id(enc)][1]), nbytes, ChunkMaxSize)

\* Append one sample of nbytes bytes (no tile); id is the id that
\* generate_chunk_id draws if a chunk is allocated.
EngineAppend(nbytes, id) ==
    /\ eng_flush = 0
    /\ ~eng_crashed
    /\ LET sample == [index |-> eng_appended, nbytes |-> nbytes]
       IN  IF appends_to_last_chunk(eng_encoder, eng_cache, nbytes)
           THEN /\ eng_cache' = [eng_cache EXCEPT ![last_chunk_id(eng_encoder)] =
                                    Some(Append(@[1], sample))]
                /\ eng_encoder' = register_samples(eng_encoder, 1)
                /\ eng_dirty' = eng_dirty \cup {last_chunk_id(eng_encoder)}
           ELSE /\ eng_cache' = [eng_cache EXCEPT ![id] = Some(<<sample>>)]
                /\ eng_encoder' = register_samples(generate_chunk_id(eng_encoder, id), 1)
                /\ eng_dirty' = eng_dirty \cup {id}
    /\ eng_appended' = eng_appended + 1
    /\ UNCHANGED <<eng_flush, eng_crashed, store_chunks, store_encoder, store_meta>>

\* Flush ordering: chunk blobs, then encoders, then tensor meta.
flush_order == <<"chunks", "encoder", "meta">>

next_flush(step) == IF step = Len(flush_order) THEN 0 ELSE step + 1

EngineInit ==
    /\ eng_encoder = <<>>
    /\ eng_cache = [id \in Ids |-> None]
    /\ eng_dirty = {}
    /\ eng_appended = 0
    /\ eng_flush = 0
    /\ eng_crashed = FALSE
    /\ store_chunks = [id \in Ids |-> None]
    /\ store_encoder = <<>>
    /\ store_meta = 0

\* flush() is called with something dirty in the cache.
EngineFlushBegin ==
    /\ eng_flush = 0
    /\ ~eng_crashed
    /\ eng_dirty # {}
    /\ eng_flush' = 1
    /\ UNCHANGED <<eng_encoder, eng_cache, eng_dirty, eng_appended, eng_crashed,
                   store_chunks, store_encoder, store_meta>>

\* One dirty chunk is written to its key.
EngineFlushChunk(id) ==
    /\ eng_flush > 0
    /\ ~eng_crashed
    /\ flush_order[eng_flush] = "chunks"
    /\ id \in eng_dirty
    /\ store_chunks' = [store_chunks EXCEPT ![id] = eng_cache[id]]
    /\ eng_dirty' = eng_dirty \ {id}
    /\ eng_flush' = IF eng_dirty = {id} THEN next_flush(eng_flush) ELSE eng_flush
    /\ UNCHANGED <<eng_encoder, eng_cache, eng_appended, eng_crashed,
                   store_encoder, store_meta>>

\* The chunk-id encoder is written to its key.
EngineFlushEncoder ==
    /\ eng_flush > 0
    /\ ~eng_crashed
    /\ flush_order[eng_flush] = "encoder"
    /\ store_encoder' = eng_encoder
    /\ eng_flush' = next_flush(eng_flush)
    /\ UNCHANGED <<eng_encoder, eng_cache, eng_dirty, eng_appended, eng_crashed,
                   store_chunks, store_meta>>

\* The tensor meta is written to its key.
EngineFlushMeta ==
    /\ eng_flush > 0
    /\ ~eng_crashed
    /\ flush_order[eng_flush] = "meta"
    /\ store_meta' = num_samples(eng_encoder)
    /\ eng_flush' = next_flush(eng_flush)
    /\ UNCHANGED <<eng_encoder, eng_cache, eng_dirty, eng_appended, eng_crashed,
                   store_chunks, store_encoder>>

\* The writer crashes; what the store holds is what readers are left with.
EngineCrash ==
    /\ ~eng_crashed
    /\ eng_appended > 0
    /\ eng_crashed' = TRUE
    /\ UNCHANGED <<eng_encoder, eng_cache, eng_dirty, eng_appended, eng_flush,
                   store_chunks, store_encoder, store_meta>>

\* ---------------------------------------------------------- specifications
\* The state of everything but the chunk and the chunk-id encoder.
extVars == <<tensorVars, gcsVars, trVars, engVars>>

vars == <<chunkVars, idVars, extVars>>

ExtInit == TensorInit /\ GcsInit /\ TransformInit /\ EngineInit

Init == ChunkInit /\ IdInit /\ ExtInit

PlainInit == Init /\ chunk_compression = "none"

Lz4Init == Init /\ chunk_compression = "lz4"

Append1 ==
    /\ \E arr \in Arrays1D : AppendSample(arr)
    /\ UNCHANGED <<idVars, extVars>>

\* A buffer of n samples of one shape, as the engine hands them over.
Extend1 ==
    /\ \E arr \in Arrays1D, n \in 1..2 :
        LET buffer == IF n = 1 THEN arr.buf ELSE arr.buf \o arr.buf
        IN  ExtendSamples(buffer, [j \in 1..n |-> arr.shape], [j \in 1..n |-> Len(arr.buf)])
    /\ UNCHANGED <<idVars, extVars>>

AppendLz4 ==
    /\ \E arr \in Arrays1D : AppendCompressed(arr)
    /\ UNCHANGED <<idVars, extVars>>

Update1 ==
    /\ \E k \in 0..(MaxChunkSamples - 1), arr \in Arrays1D \cup Arrays2D : UpdateSample(k, arr)
    /\ UNCHANGED <<idVars, extVars>>

Read1 ==
    /\ DecompressedSamples
    /\ UNCHANGED <<idVars, extVars>>

Generate1 ==
    /\ \E id \in Ids : GenerateChunkId(id)
    /\ UNCHANGED <<chunkVars, extVars>>

Register1 ==
    /\ \E n \in (-1)..MaxRegister : RegisterSamples(n)
    /\ UNCHANGED <<chunkVars, extVars>>

Pop1 ==
    /\ Pop
    /\ UNCHANGED <<chunkVars, extVars>>

Translate1 ==
    /\ \E i \in 0..(MaxSamples - 1) : TranslateIndexRelativeToChunks(i)
    /\ UNCHANGED <<chunkVars, extVars>>

Name1 ==
    /\ \E id \in 0..MaxNameId : NameFromId(id)
    /\ UNCHANGED <<chunkVars, extVars>>

\* The chunk is written out and read back, or read from an empty buffer.
ChunkLoad1 ==
    /\ \E buffer \in {<<>>, chunk_tobytes} : ChunkFromBuffer(buffer)
    /\ UNCHANGED <<idVars, extVars>>

IdsLoad1 ==
    /\ \E buffer \in {<<>>, ids_tobytes(encoded)} : IdsFromBuffer(buffer)
    /\ UNCHANGED <<chunkVars, extVars>>

\* Neither a Chunk call nor a ChunkIdEncoder call has been made.
ChunkFresh == call.op = "init"

IdsFresh == idcall.op = "init"

\* The calls on one cachable object while the other is left as constructed.
CachableAppend == IdsFresh /\ Append1

CachableExtend == IdsFresh /\ Extend1

CachableUpdate == IdsFresh /\ Update1

CachableChunkLoad == IdsFresh /\ ChunkLoad1

CachableGenerate == ChunkFresh /\ Generate1

CachableRegister == ChunkFresh /\ Register1

CachablePop == ChunkFresh /\ Pop1

CachableIdsLoad == ChunkFresh /\ IdsLoad1

CachableNext ==
    \/ CachableAppend \/ CachableExtend \/ CachableUpdate \/ CachableChunkLoad
    \/ CachableGenerate \/ CachableRegister \/ CachablePop \/ CachableIdsLoad

ChunkNext == Append1 \/ Extend1 \/ AppendLz4 \/ Update1 \/ Read1

IdNext == Generate1 \/ Register1 \/ Pop1

\* Calls of the chunk-id encoder that read the table.
IdReadNext == Translate1 \/ Name1

\* tobytes / frombuffer of either object.
LoadNext == ChunkLoad1 \/ IdsLoad1

Next == ChunkNext \/ IdNext \/ IdReadNext \/ LoadNext

Spec == Init /\ [][Next]_vars

\* The chunk alone, under either compression.
SpecChunk == Init /\ [][ChunkNext]_vars

\* An uncompressed chunk given append_sample and extend_samples only.
SpecAppend == PlainInit /\ [][Append1 \/ Extend1]_vars

\* An uncompressed chunk given every call of the Chunk.
SpecUncompressed == PlainInit /\ [][Append1 \/ Extend1 \/ Update1]_vars

\* An uncompressed chunk given append_sample and update_sample only.
SpecPlain == PlainInit /\ [][Append1 \/ Update1]_vars

\* A chunk under lz4 chunk compression: appends, updates and reads.
SpecLz4 == Lz4Init /\ [][AppendLz4 \/ Update1 \/ Read1]_vars

\* The chunk-id encoder alone.
SpecIds == PlainInit /\ [][IdNext]_vars

\* The chunk-id encoder given generate_chunk_id and register_samples only.
SpecRegister == PlainInit /\ [][Generate1 \/ Register1]_vars

\* The chunk-id encoder written by generate_chunk_id and register_samples
\* and read by translate_index_relative_to_chunks.
SpecLookup == PlainInit /\ [][Generate1 \/ Register1 \/ Translate1]_vars

\* An uncompressed chunk, or a chunk-id encoder, written by its calls, then
\* serialized and read back.
SpecCachable == PlainInit /\ [][CachableNext]_vars

\* The static name functions of the chunk-id encoder, given ids.
SpecNames == PlainInit /\ [][Name1]_vars

\* Views of a tensor, indexed and indexed again.
Index1 ==
    /\ \E k \in Keys : TensorGetItem(k)
    /\ UNCHANGED <<chunkVars, idVars, gcsVars, trVars, engVars>>

Descend1 ==
    /\ TensorDescend
    /\ UNCHANGED <<chunkVars, idVars, gcsVars, trVars, engVars>>

SpecTensor == PlainInit /\ [][Index1 \/ Descend1]_vars

\* Calls of the GCS provider.
GcsGet1 ==
    /\ \E k \in GcsKeys : GcsGet(k)
    /\ UNCHANGED <<chunkVars, idVars, tensorVars, trVars, engVars>>

GcsSet1 ==
    /\ \E k \in GcsKeys, value \in GcsValues : GcsSet(k, value)
    /\ UNCHANGED <<chunkVars, idVars, tensorVars, trVars, engVars>>

GcsDel1 ==
    /\ \E k \in GcsKeys : GcsDel(k)
    /\ UNCHANGED <<chunkVars, idVars, tensorVars, trVars, engVars>>

GcsClear1 ==
    /\ GcsClear
    /\ UNCHANGED <<chunkVars, idVars, tensorVars, trVars, engVars>>

GcsContains1 ==
    /\ \E k \in GcsKeys : GcsContains(k)
    /\ UNCHANGED <<chunkVars, idVars, tensorVars, trVars, engVars>>

GcsIter1 ==
    /\ GcsIter
    /\ UNCHANGED <<chunkVars, idVars, tensorVars, trVars, engVars>>

GcsLen1 ==
    /\ GcsLen
    /\ UNCHANGED <<chunkVars, idVars, tensorVars, trVars, engVars>>

GcsReadonly1 ==
    /\ GcsEnableReadonly
    /\ UNCHANGED <<chunkVars, idVars, tensorVars, trVars, engVars>>

GcsNext ==
    \/ GcsGet1 \/ GcsSet1 \/ GcsDel1 \/ GcsClear1
    \/ GcsContains1 \/ GcsIter1 \/ GcsLen1 \/ GcsReadonly1

SpecGcs == PlainInit /\ [][GcsNext]_vars

GcsGetYielded1 ==
    /\ \E f \in BlobNames : GcsGetYielded(f)
    /\ UNCHANGED <<chunkVars, idVars, tensorVars, trVars, engVars>>

GcsContainsYielded1 ==
    /\ \E f \in BlobNames : GcsContainsYielded(f)
    /\ UNCHANGED <<chunkVars, idVars, tensorVars, trVars, engVars>>

\* The GCS provider written, iterated, and read back by what iteration
\* yielded.
SpecGcsKeys ==
    PlainInit /\ [][GcsSet1 \/ GcsDel1 \/ GcsClear1 \/ GcsIter1 \/ GcsLen1
                     \/ GcsGetYielded1 \/ GcsContainsYielded1]_vars

\* Evaluations of a transform, as the tests make them.
Eval1 ==
    /\ \E name \in DOMAIN Pipelines, scheduler \in schedulers,
          storage \in OutputStorages, num_workers \in 0..TestNumWorkers :
            TransformEval(Job(name, scheduler, storage, num_workers))
    /\ UNCHANGED <<chunkVars, idVars, tensorVars, gcsVars, engVars>>

Work1 ==
    /\ \E w \in 1..TestNumWorkers : TransformWork(w)
    /\ UNCHANGED <<chunkVars, idVars, tensorVars, gcsVars, engVars>>

Merge1 ==
    /\ TransformMerge
    /\ UNCHANGED <<chunkVars, idVars, tensorVars, gcsVars, engVars>>

SpecTransform == PlainInit /\ [][Eval1 \/ Work1 \/ Merge1]_vars

\* Appends to a tensor that is flushed to the store, and a crash.
DurableAppend1 ==
    /\ eng_appended < MaxDurableAppends
    /\ \E nbytes \in SampleSizes, id \in Ids : EngineAppend(nbytes, id)
    /\ UNCHANGED <<chunkVars, idVars, tensorVars, gcsVars, trVars>>

FlushBegin1 ==
    /\ EngineFlushBegin
    /\ UNCHANGED <<chunkVars, idVars, tensorVars, gcsVars, trVars>>

FlushChunk1 ==
    /\ \E id \in Ids : EngineFlushChunk(id)
    /\ UNCHANGED <<chunkVars, idVars, tensorVars, gcsVars, trVars>>

FlushEncoder1 ==
    /\ EngineFlushEncoder
    /\ UNCHANGED <<chunkVars, idVars, tensorVars, gcsVars, trVars>>

FlushMeta1 ==
    /\ EngineFlushMeta
    /\ UNCHANGED <<chunkVars, idVars, tensorVars, gcsVars, trVars>>

Crash1 ==
    /\ EngineCrash
    /\ UNCHANGED <<chunkVars, idVars, tensorVars, gcsVars, trVars>>

SpecEngine ==
    PlainInit /\ [][DurableAppend1 \/ FlushBegin1 \/ FlushChunk1 \/ FlushEncoder1
                       \/ FlushMeta1 \/ Crash1]_vars

\* The example: samples of 100 bytes appended under a budget of 256 bytes.
ExampleAppend1 ==
    /\ eng_appended < ExampleSamples
    /\ \E id \in Ids : EngineAppend(ExampleSampleBytes, id)
    /\ UNCHANGED <<chunkVars, idVars, tensorVars, gcsVars, trVars>>

SpecExample == PlainInit /\ [][ExampleAppend1]_vars

\* extend_samples handed one or two samples of one shape and an nbytes list
\* of up to two entries, each the samples' size or None.
ExtendGiven1 ==
    /\ \E arr \in Arrays1D, n \in 1..2, len \in 0..2 :
        \E nbytes \in SeqsOfLen({None, Some(Len(arr.buf))}, len) :
            ExtendSamplesGiven(IF n = 1 THEN arr.buf ELSE arr.buf \o arr.buf,
                               [j \in 1..n |-> arr.shape], nbytes)
    /\ UNCHANGED <<idVars, extVars>>

\* An uncompressed chunk given append_sample, and extend_samples with
\* whatever nbytes list.
SpecExtend == PlainInit /\ [][Append1 \/ ExtendGiven1]_vars

\* The chunk is read back from a blob that an older release wrote.
OlderLoad1 ==
    /\ ChunkFromBuffer(serialize_chunk("older", ShapeArray(shapes_encoder),
                                        BytePositionsArray(byte_positions_encoder), data))
    /\ UNCHANGED <<idVars, extVars>>

\* An uncompressed chunk, at times loaded from an older layout, given every
\* mutating call of the Chunk.
SpecUpgrade == PlainInit /\ [][Append1 \/ Extend1 \/ Update1 \/ OlderLoad1]_vars

\* ------------------------------------------------------------ properties
\* data[start:end] of sample j, read through a byte-positions table.
SampleBytes(d, enc, j) ==
    PySlice(d, bytes_getitem(enc, j)[1], bytes_getitem(enc, j)[2])

\* C1: append_sample and extend_samples return exactly when
\* num_data_bytes + len(buffer) <= max_data_bytes (the data then grows by
\* len(buffer)) and raise FullChunkError otherwise; num_data_bytes never
\* exceeds max_data_bytes.
C1_AppendWithinBudget ==
    /\ [](num_data_bytes <= MaxDataBytes)
    /\ [][call'.op \in {"append_sample", "extend_samples"} =>
            /\ call'.result \in {"ok", "FullChunkError"}
            /\ (call'.result = "ok") <=> (num_data_bytes + call'.nbytes <= MaxDataBytes)
            /\ (call'.result = "ok") => (Len(data') = num_data_bytes + call'.nbytes)]_vars

\* An append was refused by a chunk that already holds bytes and would
\* have taken a smaller buffer.
C1_Witness ==
    /\ call.op = "append_sample"
    /\ call.result = "FullChunkError"
    /\ num_data_bytes > 0
    /\ num_data_bytes < MaxDataBytes

\* C2: a call that raises FullChunkError leaves the data buffer, both
\* encoders and both decompressed caches as they were.
C2_FullChunkLeavesChunk ==
    [][call'.result = "FullChunkError" => UNCHANGED chunkState]_vars

\* extend_samples was refused by a chunk holding two samples.
C2_Witness ==
    /\ call.op = "extend_samples"
    /\ call.result = "FullChunkError"
    /\ NumSamples(shapes_encoder) = 2
    /\ num_data_bytes > 0

\* C3: under lz4 chunk compression, a decompressed_samples call after an
\* update_sample that returned gives the new value for the updated sample
\* and the earlier values for the others.
C3_ReadbackAfterUpdate ==
    (/\ chunk_compression = "lz4"
     /\ upd
     /\ call.op = "decompressed_samples"
     /\ call.result = "ok") => readback = written

\* C4: in an uncompressed chunk an update_sample that returns replaces only
\* sample k: its byte range holds the new buffer, the sample count is
\* unchanged, the data length changes by the difference of the two sizes,
\* and every other sample reads as before through its byte range.
C4_UpdateReplacesOnlyK ==
    [][(call'.op = "update_sample" /\ call'.result = "ok") =>
        LET k     == call'.k
            n     == NumSamples(byte_positions_encoder)
            oldnb == bytes_getitem(byte_positions_encoder, k)[2]
                         - bytes_getitem(byte_positions_encoder, k)[1]
        IN  /\ NumSamples(byte_positions_encoder') = n
            /\ NumSamples(shapes_encoder') = NumSamples(shapes_encoder)
            /\ SampleBytes(data', byte_positions_encoder', k) = call'.buf
            /\ Len(data') = Len(data) - oldnb + Len(call'.buf)
            /\ \A j \in 0..(n - 1) : j # k =>
                   SampleBytes(data', byte_positions_encoder', j)
                       = SampleBytes(data, byte_positions_encoder, j)]_vars

\* The middle one of three samples was given a two-byte buffer, and the
\* byte-positions table has three rows, the outer samples keeping one byte.
C4_Witness ==
    /\ call.op = "update_sample"
    /\ call.result = "ok"
    /\ call.k = 1
    /\ call.nbytes = 2
    /\ Len(byte_positions_encoder) = 3
    /\ Len(data) = 4

\* C5: in an uncompressed chunk the byte ranges tile the data buffer:
\* start(0) = 0, end(i) - start(i) is the length last written for sample i,
\* start(i + 1) = end(i), and end(last) = len(data).
C5_RangesTileData ==
    LET enc == byte_positions_encoder
        n   == NumSamples(enc)
    IN  /\ n = Len(written)
        /\ n = 0 => Len(data) = 0
        /\ n > 0 => /\ bytes_getitem(enc, 0)[1] = 0
                    /\ bytes_getitem(enc, n - 1)[2] = Len(data)
        /\ \A i \in 0..(n - 1) :
               /\ bytes_getitem(enc, i)[2] - bytes_getitem(enc, i)[1] = Len(written[i + 1].buf)
               /\ i + 1 < n => bytes_getitem(enc, i + 1)[1] = bytes_getitem(enc, i)[2]

\* Three samples of three sizes, the last change being an update.
C5_Witness ==
    /\ upd
    /\ NumSamples(byte_positions_encoder) = 3
    /\ Len(byte_positions_encoder) = 3
    /\ Len(data) > MaxDataBytes

\* C6: update_sample raises TensorInvalidSampleShapeError exactly when
\* len(new_shape) differs from the dimensionality stored for sample k, and
\* then leaves the data buffer and both encoders as they were.
C6_WrongDimensionalityRejected ==
    [][call'.op = "update_sample" =>
        /\ (call'.result = "TensorInvalidSampleShapeError")
               <=> (call'.ndim # Len(shape_getitem(shapes_encoder, call'.k)))
        /\ (call'.result = "TensorInvalidSampleShapeError")
               => UNCHANGED <<data, shapes_encoder, byte_positions_encoder>>]_vars

\* A two-dimensional shape was refused by a chunk holding data.
C6_Witness ==
    /\ call.op = "update_sample"
    /\ call.result = "TensorInvalidSampleShapeError"
    /\ call.ndim = 2
    /\ Len(data) > 1

\* ---- chunk-id encoder: what the call history says
\* Every generated row has taken a register_samples call.
AllRowsRegistered ==
    \A r \in 1..Len(regLog) : regLog[r].calls >= 1

\* No register_samples(0) was taken by a row of the table.
NoTiles ==
    \A r \in 1..Len(regLog) : ~regLog[r].zero

RECURSIVE RegisteredUpTo(_)
\* Samples registered to the first r rows.
RegisteredUpTo(r) ==
    IF r = 0 THEN 0 ELSE RegisteredUpTo(r - 1) + regLog[r].n

\* The row (1-based) whose chunk id was the last generated when sample k
\* was registered.
OwnerRow(k) ==
    CHOOSE r \in 1..Len(regLog) : RegisteredUpTo(r - 1) <= k /\ k < RegisteredUpTo(r)

ResolvesToOwner ==
    \A k \in 0..(RegisteredUpTo(Len(regLog)) - 1) :
        getitem(encoded, k) = <<encoded[OwnerRow(k)].id>>

\* C7 as stated: after any generate_chunk_id and register_samples(n >= 1)
\* calls, every sample index resolves to the one id that was the last
\* generated when the sample was registered.
C7_AnySequenceResolves ==
    NoTiles => ResolvesToOwner

\* C7 as amended: the same, once every generate_chunk_id has been followed
\* by a register_samples call (no row covers zero samples).
C7_RegisteredRowsResolve ==
    (NoTiles /\ AllRowsRegistered) => ResolvesToOwner

\* Three chunks, each registered, holding four samples or more.
C7_Witness ==
    /\ NoTiles
    /\ AllRowsRegistered
    /\ Len(encoded) = 3
    /\ RegisteredUpTo(3) >= 4

\* Rows r .. r+t-1 (1-based) were made by the tile protocol: one
\* register_samples(1) on the first, one register_samples(0) on each
\* further one, and the next row, if any, is no further piece.
TileRun(r, t) ==
    /\ r + t - 1 <= Len(regLog)
    /\ regLog[r] = [calls |-> 1, n |-> 1, zero |-> FALSE]
    /\ \A j \in 1..(t - 1) : regLog[r + j] = [calls |-> 1, n |-> 0, zero |-> TRUE]
    /\ r + t <= Len(regLog) => ~regLog[r + t].zero

\* C8: a sample split over t >= 2 chunks by the tile protocol resolves to
\* exactly its t ids in generation order and counts as one sample.
C8_TiledSampleResolves ==
    AllRowsRegistered =>
        \A r \in 1..Len(encoded), t \in 2..Len(encoded) :
            TileRun(r, t) =>
                LET i == encoded[r].last
                IN  /\ getitem(encoded, i) = [j \in 1..t |-> encoded[r + j - 1].id]
                    /\ \A j \in 0..(t - 1) : encoded[r + j].last = i
                    /\ i = RowFirst(encoded, r - 1)
                    /\ i = RegisteredUpTo(r - 1)
                    /\ r + t - 1 = Len(encoded) => num_samples(encoded) = i + 1

\* A two-piece sample that follows a chunk of ordinary samples.
C8_Witness ==
    /\ AllRowsRegistered
    /\ Len(encoded) = 3
    /\ TileRun(2, 2)
    /\ encoded[1].last = 1

\* C9 as stated: when the last sample is tiled over t >= 2 rows, _pop()
\* removes those t rows, returns their t ids, and num_samples drops by 1.
C9_PopRemovesTile ==
    [][(idcall'.op = "_pop" /\ AllRowsRegistered) =>
        \A t \in 2..Len(encoded) :
            TileRun(Len(encoded) - t + 1, t) =>
                /\ encoded' = SubSeq(encoded, 1, Len(encoded) - t)
                /\ idcall'.ids = [j \in 1..t |-> encoded[Len(encoded) - t + j].id]
                /\ num_samples(encoded') = num_samples(encoded) - 1]_vars

\* C10 as stated: when the last sample is not tiled, _pop() drops
\* num_samples by 1; a last chunk holding only that sample loses its row
\* and its id is returned, otherwise the last row's last-seen drops by 1
\* and nothing is returned.
C10_PopTakesOneSample ==
    [][(/\ idcall'.op = "_pop"
        /\ Len(encoded) > 0
        /\ AllRowsRegistered
        /\ regLog[Len(regLog)].n >= 1
        /\ Len(getitem(encoded, num_samples(encoded) - 1)) = 1) =>
        /\ num_samples(encoded') = num_samples(encoded) - 1
        /\ IF regLog[Len(regLog)].n = 1
           THEN /\ encoded' = SubSeq(encoded, 1, Len(encoded) - 1)
                /\ idcall'.ids = <<encoded[Len(encoded)].id>>
           ELSE /\ encoded' = [encoded EXCEPT ![Len(encoded)].last = @ - 1]
                /\ idcall'.ids = <<>>]_vars

\* C11: register_samples(0) is accepted if and only if the table has at
\* least two rows; with fewer it raises ChunkIdEncoderError.
C11_ZeroNeedsTwoRows ==
    [][(idcall'.op = "register_samples" /\ idcall'.n = 0) =>
        /\ idcall'.result = "ok" <=> Len(encoded) >= 2
        /\ Len(encoded) < 2 => idcall'.result = "ChunkIdEncoderError"]_vars

\* register_samples(0) was refused on a single row that holds samples.
C11_Witness ==
    /\ idcall.op = "register_samples"
    /\ idcall.n = 0
    /\ idcall.result = "ChunkIdEncoderError"
    /\ Len(encoded) = 1
    /\ regLog[1].n >= 1

\* C12: register_samples(n) with n < 0 raises ValueError, register_samples
\* on a table without rows raises ChunkIdEncoderError, and either way the
\* table is as it was.
C12_BadRegisterLeavesTable ==
    [][(idcall'.op = "register_samples" /\ (idcall'.n < 0 \/ Len(encoded) = 0)) =>
        /\ idcall'.result = IF idcall'.n < 0 THEN "ValueError" ELSE "ChunkIdEncoderError"
        /\ encoded' = encoded]_vars

\* A negative count was refused on a table that holds samples.
C12_Witness ==
    /\ idcall.op = "register_samples"
    /\ idcall.n < 0
    /\ idcall.result = "ValueError"
    /\ Len(encoded) >= 1
    /\ regLog[1].n >= 1

\* C13 as stated: a successful register_samples(n) adds n to the last row's
\* last-seen index modulo the unsigned width, adds no row, changes no id
\* and no earlier row, and num_samples grows by exactly n.
C13_RegisterAddsN ==
    [][(idcall'.op = "register_samples" /\ idcall'.result = "ok") =>
        LET K == Len(encoded)
        IN  /\ Len(encoded') = K
            /\ \A r \in 1..(K - 1) : encoded'[r] = encoded[r]
            /\ encoded'[K].id = encoded[K].id
            /\ encoded'[K].last = (encoded[K].last + idcall'.n) % EncodingModulus
            /\ num_samples(encoded') = num_samples(encoded) + idcall'.n]_vars

\* C14 as stated: generate_chunk_id() appends exactly one row whose
\* last-seen index is the previous last row's, leaves the existing rows as
\* they were and does not change num_samples.
C14_GenerateKeepsCount ==
    [][idcall'.op = "generate_chunk_id" =>
        LET K == Len(encoded)
        IN  /\ Len(encoded') = K + 1
            /\ SubSeq(encoded', 1, K) = encoded
            /\ K > 0 => encoded'[K + 1].last = encoded[K].last
            /\ num_samples(encoded') = num_samples(encoded)]_vars

\* Samples the row with 0-based index r covers, as the table counts them.
SamplesInRow(enc, r) ==
    enc[r + 1].last + 1 - RowFirst(enc, r)

\* Chunks of 2, 2 and 3 samples.
ExampleTable ==
    <<[id |-> 1, last |-> 1], [id |-> 2, last |-> 3], [id |-> 3, last |-> 6]>>

\* C15: for an untiled sample index i, translate_index_relative_to_chunks(i)
\* is i in the first chunk and i - (last-seen of the preceding row + 1)
\* otherwise, between 0 and the chunk's sample count - 1; with chunks of
\* 2, 2 and 3 samples the indices 0, 1, 2, 3, 6 give 0, 1, 0, 1, 2.
C15_UntiledLocalIndex ==
    /\ (idcall.op = "translate_index_relative_to_chunks"
            /\ Len(getitem(encoded, idcall.n)) = 1) =>
        LET i == idcall.n
            r == translate_index(encoded, i)
        IN  /\ idcall.result = "ok"
            /\ idcall.ids = <<IF r = 0 THEN i ELSE i - (encoded[r].last + 1)>>
            /\ idcall.ids[1] \in 0..(SamplesInRow(encoded, r) - 1)
            /\ (NoTiles /\ AllRowsRegistered /\ i < RegisteredUpTo(Len(regLog))) =>
                   idcall.ids[1] = i - RegisteredUpTo(OwnerRow(i) - 1)
    /\ [i \in {0, 1, 2, 3, 6} |-> translate_index_relative_to_chunks(ExampleTable, i)]
           = [i \in {0, 1, 2, 3, 6} |-> IF i = 6 THEN 2 ELSE i % 2]

\* The second sample of a later chunk was translated.
C15_Witness ==
    /\ idcall.op = "translate_index_relative_to_chunks"
    /\ idcall.result = "ok"
    /\ idcall.n = 3
    /\ idcall.ids = <<1>>
    /\ Len(encoded) >= 2
    /\ NoTiles
    /\ AllRowsRegistered

\* C16 as stated: for a tiled sample i, translate_index_relative_to_chunks(i)
\* returns the sample's offset within its first chunk.
C16_TiledLocalIndex ==
    (/\ idcall.op = "translate_index_relative_to_chunks"
     /\ AllRowsRegistered
     /\ Len(getitem(encoded, idcall.n)) >= 2) =>
        /\ idcall.result = "ok"
        /\ idcall.ids = <<idcall.n - RowFirst(encoded, translate_index(encoded, idcall.n))>>

\* C17: frombuffer(c.tobytes()) has the shape table, byte-positions table,
\* data and version of the chunk c, and frombuffer(e.tobytes()) has the
\* table and version of the chunk-id encoder e.
C17_RoundTrip ==
    [][/\ (call'.op = "frombuffer" /\ call'.nbytes > 0) =>
            /\ shapes_encoder' = shapes_encoder
            /\ byte_positions_encoder' = byte_positions_encoder
            /\ data' = data
            /\ version' = version
       /\ (idcall'.op = "frombuffer" /\ idcall'.n > 0) =>
            /\ encoded' = encoded
            /\ ids_frombuffer(ids_tobytes(encoded)).version = CurrentVersion]_vars

\* A chunk with samples of two shapes was written out and read back.
C17_Witness ==
    /\ call.op = "frombuffer"
    /\ call.nbytes > 0
    /\ Len(shapes_encoder) >= 2
    /\ Len(byte_positions_encoder) >= 2
    /\ Len(data) >= 2

\* C18: frombuffer of an empty buffer returns an empty instance without
\* raising: no samples, empty tables, no data bytes, and for the chunk-id
\* encoder no chunks.
C18_EmptyBuffer ==
    [][/\ (call'.op = "frombuffer" /\ call'.nbytes = 0) =>
            /\ call'.result = "ok"
            /\ shapes_encoder' = <<>>
            /\ byte_positions_encoder' = <<>>
            /\ NumSamples(shapes_encoder') = 0
            /\ Len(data') = 0
       /\ (idcall'.op = "frombuffer" /\ idcall'.n = 0) =>
            /\ idcall'.result = "ok"
            /\ encoded' = <<>>
            /\ num_samples(encoded') = 0
            /\ num_chunks(encoded') = 0]_vars

\* A chunk was read from an empty buffer.
C18_Witness ==
    /\ call.op = "frombuffer"
    /\ call.nbytes = 0
    /\ call.result = "ok"
    /\ data = <<>>

\* C19: name_from_id(id) is the id's lowercase hexadecimal digits without
\* the "0x" prefix, id_from_name gives the id back, and distinct ids have
\* distinct names.
C19_NameRoundTrip ==
    idcall.op = "name_from_id" =>
        LET id   == idcall.n
            name == idcall.name
        IN  /\ Len(name) >= 1
            /\ \A j \in 1..Len(name) : IsHexDigit(name[j])
            /\ Len(name) > 1 => name[1] # "0"
            /\ DigitsValue(name) = id
            /\ idcall.result = "ok"
            /\ idcall.ids = <<id>>
            /\ \A other \in 0..MaxNameId : other # id => name_from_id(other) # name

\* An id of three digits, letters among them, was named.
C19_Witness ==
    /\ idcall.op = "name_from_id"
    /\ idcall.n = 299
    /\ idcall.name = <<"1", "2", "b">>
    /\ idcall.ids = <<299>>

\* C20 as stated: no two rows of the chunk-id table carry the same id, and
\* an id returned by _pop is not produced again by a later
\* generate_chunk_id (here: the one that follows the _pop).
C20_IdsNeverReused ==
    [][/\ \A r, q \in 1..Len(encoded') : r # q => encoded'[r].id # encoded'[q].id
       /\ (idcall.op = "_pop" /\ idcall'.op = "generate_chunk_id") =>
              \A j \in 1..Len(idcall.ids) : idcall'.ids[1] # idcall.ids[j]]_vars

\* ------------------------------------------------------- Tensor properties
\* Neither bound of the slice counts from the end of the axis.
NonNegative(s) ==
    /\ s.start = None \/ s.start[1] >= 0
    /\ s.stop = None \/ s.stop[1] >= 0

\* The view returned selects, on every axis length, the indices the key
\* selects of the indices the parent view selects.
ViewComposes ==
    \A n \in 0..MaxAxis :
        resolve(view[1].slice, n) = Select(key, resolve(tensor.slice, n))

\* Indexing leaves the view that was indexed as it was.
ParentKept == [][Index1 => tensor' = tensor]_vars

C22_MissingKeyIsKeyError ==
    /\ [][gcscall'.op = "get" /\ blobs[get_path_from_key(gcscall'.key)] = None
            => gcscall'.result = "KeyError" /\ gcscall'.value = None]_vars
    /\ [][gcscall.op = "set" /\ gcscall.result = "ok"
            /\ gcscall'.op = "get" /\ gcscall'.key = gcscall.key
            => gcscall'.result = "ok" /\ gcscall'.value = gcscall.arg]_vars

\* A get raised KeyError for a key that another dataset of the bucket
\* stores, while the provider's root holds another key.
C22_Witness ==
    /\ gcscall.op = "get"
    /\ gcscall.result = "KeyError"
    /\ gcscall.key = "a"
    /\ blobs[<<"bucket", "other", "a">>] # None
    /\ blobs[get_path_from_key("b")] # None

MutatingOps == {"set", "del", "clear"}

ReadingOps == {"get", "contains", "iter", "len"}

\* C23: set, delete and clear on a read-only provider fail the read-only
\* check and leave every blob of the bucket as it was, so no step of a
\* read-only provider changes the bucket; get, contains, iteration and len
\* never change the bucket.
C23_ReadOnlyKeepsBucket ==
    /\ [][read_only => blobs' = blobs]_vars
    /\ [][read_only /\ gcscall' # gcscall /\ gcscall'.op \in MutatingOps
            => gcscall'.result = "ReadOnlyModeError"]_vars
    /\ [][gcscall'.op \in ReadingOps /\ gcscall' # gcscall => blobs' = blobs]_vars

\* A set was refused on a read-only provider whose root holds a blob.
C23_Witness ==
    /\ read_only
    /\ gcscall.op = "set"
    /\ gcscall.result = "ReadOnlyModeError"
    /\ blobs[get_path_from_key("a")] # None

\* ---------------------------------------------------- transform properties
\* The inputs of the evaluation under way.
JobInputs == InputsOf(tr_job.pipeline)

\* What the tests expect of the output dataset.
TestExpects ==
    /\ tr_job.pipeline = "single" =>
        /\ Len(tr_out) = MaxInputs
        /\ \A index \in 1..MaxInputs : tr_out[index] = 2 * index
    /\ tr_job.pipeline = "chain" =>
        /\ Len(tr_out) = 6 * MaxInputs
        /\ \A i \in 0..(MaxInputs - 1) : \A index \in (6 * i)..(6 * i + 5) :
                tr_out[index + 1] = 15 * i
    /\ tr_job.pipeline = "filter" =>
        /\ Len(tr_out) = (MaxInputs + 1) \div 2
        /\ \A i \in 0..(((MaxInputs + 1) \div 2) - 1) : tr_out[i + 1] = 2 * i

StoredSampleWhole(i) ==
    LET ids == getitem(store_encoder, i)
        blob == store_chunks[ids[1]]
        local == translate_index_relative_to_chunks(store_encoder, i)
    IN  /\ Len(ids) = 1
        /\ blob # None
        /\ local >= 0
        /\ local < Len(blob[1])
        /\ blob[1][local + 1].index = i

\* What a reader of the store sees is a consistent snapshot.
StoreConsistent ==
    /\ num_samples(store_encoder) <= eng_appended
    /\ \A i \in 0..(num_samples(store_encoder) - 1) : StoredSampleWhole(i)

\* The ids of the encoder's rows are pairwise distinct.
RowIdsDistinct ==
    \A r, t \in 1..Len(eng_encoder) : r # t => eng_encoder[r].id # eng_encoder[t].id

\* C26: with chunk blobs flushed before the encoder and the encoder before
\* the tensor meta, the store holds a consistent snapshot at every point a
\* crash may strike: the stored encoder counts at most the samples
\* appended, and every sample index it counts resolves to a chunk blob that
\* exists and holds that sample whole.
C26_CrashLeavesSnapshot == StoreConsistent

\* The same, for as long as generate_chunk_id drew no id twice.
DistinctIdsLeaveSnapshot == RowIdsDistinct => StoreConsistent

\* The writer crashed between the flush of the chunk blobs and the flush of
\* the encoder, with samples in the store and more appended since.
CrashMidFlush ==
    /\ eng_crashed
    /\ eng_flush > 0
    /\ flush_order[eng_flush] = "encoder"
    /\ num_samples(store_encoder) > 0
    /\ num_samples(store_encoder) < eng_appended
    /\ RowIdsDistinct

\* The last-seen column of the engine's encoder.
LastSeens == [r \in 1..Len(eng_encoder) |-> eng_encoder[r].last]

\* The data bytes of every chunk are within the budget.
ChunksWithinBudget ==
    \A id \in Ids :
        eng_cache[id] # None => chunk_data_bytes(eng_cache[id][1]) <= ChunkMaxSize

\* C27 as stated: 10 samples of 100 bytes appended under a budget of 256
\* bytes leave a chunk-id encoder of 4 rows, that is 4 chunks, each holding
\* at most 256 data bytes.
C27_FourChunks ==
    eng_appended = ExampleSamples => Len(eng_encoder) = 4 /\ ChunksWithinBudget

\* C27: 10 samples of 100 bytes appended under a budget of 256 bytes leave
\* a chunk-id encoder of 5 rows with last-seen indices 1, 3, 5, 7, 9, one
\* row for each chunk allocated, and every chunk holds at most 256 data
\* bytes.
C27_FiveChunks ==
    eng_appended = ExampleSamples =>
        /\ Len(eng_encoder) = 5
        /\ LastSeens = <<1, 3, 5, 7, 9>>
        /\ ChunksWithinBudget

\* The ten samples of the example are appended, into chunks of five
\* allocations.
C27_Witness ==
    /\ eng_appended = ExampleSamples
    /\ Len(eng_encoder) = 5
    /\ \E id \in Ids : eng_cache[id] # None /\ chunk_data_bytes(eng_cache[id][1]) = 200

\* ---------------------------------------------- last-seen column properties
\* C28: after any sequence of generate_chunk_id, register_samples and _pop
\* calls that return without error, the last-seen column of the chunk-id
\* table is non-decreasing from the first row to the last.
C28_LastSeenAscending ==
    idcall.result = "ok" =>
        \A r \in 1..(Len(encoded) - 1) : encoded[r].last <= encoded[r + 1].last

\* ------------------------------------------------ header encoder properties
\* C29: after any sequence of successful append_sample and extend_samples
\* calls, whatever shapes and nbytes lists extend_samples was given, the
\* shape encoder and the byte-positions encoder count the same samples, as
\* many as were appended.
C29_HeadersCoverSameSamples ==
    /\ NumSamples(shapes_encoder) = NumSamples(byte_positions_encoder)
    /\ NumSamples(shapes_encoder) = Len(written)

\* ----------------------------------------------------- lz4 update properties
\* C30: an update_sample under lz4 chunk compression that passes the
\* dimensionality check works on the lz4-decompressed data of the chunk,
\* whether or not the decompressed-data cache is populated: it returns, and
\* the chunk's data then decompresses to the old decompressed data with the
\* new bytes in the sample's place.
C30_Lz4UpdateDecompresses ==
    [][chunk_compression = "lz4" /\ call'.op = "update_sample"
        /\ call'.result # "TensorInvalidSampleShapeError"
        => /\ call'.result = "ok"
           /\ Lz4Decompress(data') =
                Splice(Lz4Decompress(data),
                       bytes_getitem(byte_positions_encoder, call'.k)[1],
                       bytes_getitem(byte_positions_encoder, call'.k)[2],
                       bytes_getitem(byte_positions_encoder', call'.k)[1],
                       bytes_getitem(byte_positions_encoder', call'.k)[2],
                       call'.buf)]_vars

\* ------------------------------------------- forward-compatibility properties
\* C31: an append_sample, extend_samples or update_sample that changes the
\* data buffer or either encoder has invoked ffw_chunk first, so the chunk
\* it leaves is of the current version.
C31_HookBeforeMutation ==
    [][call'.op \in {"append_sample", "extend_samples", "update_sample"}
        /\ (data' # data \/ shapes_encoder' # shapes_encoder
            \/ byte_positions_encoder' # byte_positions_encoder)
        => version' = CurrentVersion]_vars

\* ------------------------------------------------ decompressed cache properties
AppendOps == {"append_sample", "extend_samples", "append_compressed"}

\* A successful append leaves both decompressed caches empty.
AppendClearsCaches ==
    [][call'.op \in AppendOps /\ call'.result = "ok" /\ call' # call
        => cache_samples' = None /\ cache_data' = None]_vars

\* C32: a successful append leaves both decompressed caches empty, and the
\* decompressed_samples call that follows it returns a list rebuilt with
\* one entry for each sample registered in the shape encoder.
C32_AppendInvalidatesCaches ==
    /\ AppendClearsCaches
    /\ [][call.op \in AppendOps /\ call.result = "ok"
            /\ call'.op = "decompressed_samples"
            => /\ call'.result = "ok"
               /\ Len(readback') = NumSamples(shapes_encoder)
               /\ cache_samples' = Some(readback')]_vars

\* The pair p = <<id, r>> names the table row (0-based r) that holds id.
PairNamesRow(enc, p) ==
    /\ p[2] >= 0
    /\ p[2] < Len(enc)
    /\ enc[p[2] + 1].id = p[1]

\* C33: for every sample index the table covers, each pair <<id, r>> that
\* __getitem__(i, return_row_index=True) returns, tile continuations
\* included, has r equal to the index of the table row that holds id.
C33_RowIndexNamesRow ==
    \A i \in 0..(CountedSamples(encoded) - 1) :
        LET rows == getitem_rows(encoded, i)
        IN  \A j \in 1..Len(rows) : PairNamesRow(encoded, rows[j])

\* C34: in every state of the bucket, len(provider) equals the number of
\* keys that iterating the provider yields.
C34_LenCountsIteratedKeys ==
    gcs_len(blobs) = Cardinality(gcs_iter(blobs))

\* After a successful set(k, v), k itself is among the keys iteration yields.
SetKeyIsYielded ==
    [][gcscall'.op = "set" /\ gcscall'.result = "ok"
        => KeyPath(gcscall'.key) \in gcs_iter(blobs')]_vars

\* A key that iteration yielded, handed to get and to contains, reaches the
\* value stored under it.
YieldedKeyReachesValue ==
    [][\A f \in gcscall'.names :
          /\ gcscall'.op = "get_yielded"
                => gcscall'.result = "ok" /\ gcscall'.value = blobs[f]
          /\ gcscall'.op = "contains_yielded" => gcscall'.result = "True"]_vars

\* C35: keys round-trip through iteration: after set(k, v), k itself is
\* among the keys iteration yields, and every key that iteration yields can
\* be passed to get and to contains to reach the stored value.
C35_KeysRoundTrip ==
    /\ SetKeyIsYielded
    /\ YieldedKeyReachesValue

====
